---- MODULE Spec2Model ----
(***************************************************************************)
(* Model of the YouTube Shorts automation pipeline:                        *)
(*   script_generator.py  (ScriptGenerator, the joke source)               *)
(*   video_creator.py     (VideoCreator, the full renderer)                *)
(*   youtube_uploader.py  (YouTubeUploader, the resumable upload)          *)
(*   main.py              (YouTubeShortsAutomation, the orchestrator)      *)
(*                                                                         *)
(* One pipeline run is a single sequential thread; pc is its position.     *)
(* Python's None is modelled by None (for dict-valued results) and by      *)
(* NoneStr (for string-valued results).  Strings are TLA+ strings, so      *)
(* concatenation and length are computed as the code computes them.        *)
(***************************************************************************)
EXTENDS Integers, Sequences, FiniteSets, TLC

\* ------------------------------------------------------------------ bounds

\* Number of daily_automation invocations explored.
MaxRuns == 1

\* Number of next_chunk calls of one upload that may return progress without
\* a final response (the transport decides; the loop itself has no limit).
MaxProgress == 1

\* Largest requested duration (besides the sample 500) fed to the renderer
\* when it is exercised on its own.
MaxDuration == 62

\* Number of manual triggers (CLI --test, dashboard test endpoint) explored
\* when the processes around the pipeline are modelled.
MaxTriggered == 2

\* Times the daily alarm time passes.
MaxAlarms == 1

\* Last second of the wall clock (the renderers name their files by it).
MaxSecond == 1

\* Largest number of words in the topic of a script record handed to the
\* tag generation.
MaxTopicWords == 3

\* Largest number of words in one text field of a joke handed to format_script
\* on its own.
MaxJokeWords == 3

\* Longest text, in characters, handed to create_text_clip on its own.
MaxTextLen == 101

\* ------------------------------------------------------- program constants

\* video_settings["duration"] / min(..., 60): the Shorts limit.
MaxShortsDuration == 60

\* script_data.get("duration", 10)
DefaultDuration == 10

\* (mutant) one retry fewer
MaxRetries_Two == 2

\* if retry > 3
MaxRetries == 3

\* duration assigned to a two-part joke / a one-liner by format_script
DadJokeDuration == 6
OneLinerDuration == 4

None == [none |-> TRUE]
NoneStr == "None"

\* ---------------------------------------------------------- script source

\* self.joke_apis, each endpoint named by the substring the parser tests for
joke_apis_init == <<"official-joke-api", "jokeapi.dev", "icanhazdadjoke">>

Apis == {joke_apis_init[i] : i \in 1..Len(joke_apis_init)}

\* random.shuffle: every order of the three endpoints
Shuffles == {s \in [1..Len(joke_apis_init) -> Apis] : \A i, j \in DOMAIN s : i /= j => s[i] /= s[j]}

backup_jokes == <<
  [setup |-> "Why don't scientists trust atoms?", punchline |-> "Because they make up everything!", type |-> "dad_joke"],
  [setup |-> "What do you call a fake noodle?", punchline |-> "An impasta!", type |-> "dad_joke"],
  [setup |-> "Why did the scarecrow win an award?", punchline |-> "Because he was outstanding in his field!", type |-> "dad_joke"],
  [setup |-> "What do you call a bear with no teeth?", punchline |-> "A gummy bear!", type |-> "dad_joke"],
  [setup |-> "Why don't eggs tell jokes?", punchline |-> "They'd crack each other up!", type |-> "dad_joke"],
  [joke |-> "I told my wife she was drawing her eyebrows too high. She looked surprised.", type |-> "one_liner"],
  [joke |-> "I invented a new word: Plagiarism!", type |-> "one_liner"],
  [joke |-> "Why do programmers prefer dark mode? Because light attracts bugs!", type |-> "one_liner"] >>

\* dict.get(key, default)
Get(d, key, default) == IF key \in DOMAIN d THEN d[key] ELSE default

\* Python truthiness of an Optional[Dict]: None and the empty dict are falsy
Truthy(d) == d /= None /\ DOMAIN d /= {}

\* JSON objects an endpoint may answer with (HTTP 200).  The first four are
\* the documented shapes of the three services; the others are objects that
\* lack the joke fields or carry them empty.
Bodies == {
  [type |-> "general", setup |-> "Why?", punchline |-> "Because!"],
  [type |-> "single", joke |-> "One."],
  [type |-> "twopart", setup |-> "Why?", delivery |-> "Because!"],
  [id |-> "R7UfaahVfFd", joke |-> "One.", status |-> "200"],
  [error |-> "true", message |-> "No matching joke found"],
  [type |-> "single", joke |-> ""],
  [type |-> "general", setup |-> "", punchline |-> ""] }

\* What one requests.get + raise_for_status + response.json() can do.
ApiOutcomes ==
  {[kind |-> k] : k \in {"timeout", "http_error", "bad_json"}}
    \cup {[kind |-> "json", data |-> b] : b \in Bodies}

\* (mutant) the single-line endpoint read under the wrong key
fetch_joke_from_api_WrongKey(api_url, outcome) ==
  IF outcome.kind /= "json" THEN None
  ELSE LET data == outcome.data IN
    CASE api_url = "official-joke-api" ->
           [setup |-> Get(data, "setup", ""), punchline |-> Get(data, "punchline", ""), type |-> "dad_joke"]
      [] api_url = "jokeapi.dev" ->
           IF Get(data, "type", NoneStr) = "single"
           THEN [joke |-> Get(data, "joke", ""), type |-> "one_liner"]
           ELSE [setup |-> Get(data, "setup", ""), punchline |-> Get(data, "delivery", ""), type |-> "dad_joke"]
      [] api_url = "icanhazdadjoke" ->
           [joke |-> Get(data, "text", ""), type |-> "one_liner"]

\* fetch_joke_from_api: any exception is caught and gives None; a JSON object
\* is normalised according to the endpoint it came from.
fetch_joke_from_api(api_url, outcome) ==
  IF outcome.kind /= "json" THEN None
  ELSE LET data == outcome.data IN
    CASE api_url = "official-joke-api" ->
           [setup |-> Get(data, "setup", ""), punchline |-> Get(data, "punchline", ""), type |-> "dad_joke"]
      [] api_url = "jokeapi.dev" ->
           IF Get(data, "type", NoneStr) = "single"
           THEN [joke |-> Get(data, "joke", ""), type |-> "one_liner"]
           ELSE [setup |-> Get(data, "setup", ""), punchline |-> Get(data, "delivery", ""), type |-> "dad_joke"]
      [] api_url = "icanhazdadjoke" ->
           [joke |-> Get(data, "joke", ""), type |-> "one_liner"]

\* get_backup_joke: random.choice(self.backup_jokes), the choice being i
get_backup_joke(i) == backup_jokes[i]

\* str.split(): the words of a text, separated by runs of blanks
RECURSIVE SplitWords(_, _, _)
SplitWords(s, cur, acc) ==
  IF s = "" THEN (IF cur = "" THEN acc ELSE Append(acc, cur))
  ELSE IF Head(s) = " "
       THEN SplitWords(Tail(s), "", IF cur = "" THEN acc ELSE Append(acc, cur))
       ELSE SplitWords(Tail(s), cur \o Head(s), acc)

split(s) == SplitWords(s, "", <<>>)

\* (mutant) every duration is estimated from the words of the script
format_script_ByWords(joke_data) ==
  LET script_text == Get(joke_data, "joke",
                         Get(joke_data, "setup", "") \o " " \o Get(joke_data, "punchline", ""))
  IN [source |-> "api",
      type |-> Get(joke_data, "type", "unknown"),
      script |-> script_text,
      duration |-> Len(split(script_text)) \div 2,
      topic |-> "humor"]

\* format_script: the script record of a joke (the timestamp is left out)
format_script(joke_data) ==
  LET base == [source |-> IF "setup" \in DOMAIN joke_data \/ "joke" \in DOMAIN joke_data
                          THEN "api" ELSE "backup",
               type |-> Get(joke_data, "type", "unknown")]
  IN IF joke_data["type"] = "dad_joke" /\ "setup" \in DOMAIN joke_data
     THEN base @@ [script |-> joke_data["setup"] \o " " \o joke_data["punchline"],
                   setup |-> joke_data["setup"],
                   punchline |-> joke_data["punchline"],
                   duration |-> DadJokeDuration,
                   topic |-> "dad joke"]
     ELSE IF joke_data["type"] = "one_liner" /\ "joke" \in DOMAIN joke_data
     THEN base @@ [script |-> joke_data["joke"],
                   duration |-> OneLinerDuration,
                   topic |-> "one liner"]
     ELSE LET script_text == Get(joke_data, "joke",
                                 Get(joke_data, "setup", "") \o " " \o Get(joke_data, "punchline", ""))
          IN base @@ [script |-> script_text,
                      duration |-> Len(split(script_text)) \div 2,
                      topic |-> "humor"]

\* enhance_script_for_video: adds the cue and overlay lists (times in tenths
\* of a second), the audio suggestion and the hashtags
enhance_script_for_video(script_data) ==
  script_data @@
  [visual_cues |->
     IF script_data["type"] = "dad_joke"
     THEN << [time |-> 0, action |-> "show_setup_text"],
             [time |-> 20, action |-> "dramatic_pause"],
             [time |-> 30, action |-> "show_punchline_text"],
             [time |-> 50, action |-> "show_laughing_emoji"] >>
     ELSE << [time |-> 0, action |-> "show_joke_text"],
             [time |-> 10 * script_data["duration"], action |-> "show_laughing_emoji"] >>,
   text_overlays |->
     IF script_data["type"] = "dad_joke"
     THEN << [text |-> Get(script_data, "setup", ""), start |-> 0, end |-> 25],
             [text |-> Get(script_data, "punchline", ""), start |-> 30, end |-> 60] >>
     ELSE << [text |-> script_data["script"], start |-> 0, end |-> 10 * script_data["duration"]] >>,
   background_audio |-> [type |-> "upbeat_comedy"],
   suggested_hashtags |-> <<"#shorts", "#funny", "#comedy", "#joke", "#humor",
                            "#viral", "#laughs", "#entertainment">>]

\* (mutant) the record is returned although the script file was not written
generate_funny_script_IgnoreWrite(joke_data, backup_choice, write_ok) ==
  LET jd == IF ~Truthy(joke_data) THEN get_backup_joke(backup_choice) ELSE joke_data
  IN enhance_script_for_video(format_script(jd))

\* (mutant) no fallback to the local list: formatting no joke raises, which
\* is caught and gives None
generate_funny_script_NoBackup(joke_data, backup_choice, write_ok) ==
  IF ~Truthy(joke_data) THEN None
  ELSE IF write_ok THEN enhance_script_for_video(format_script(joke_data)) ELSE None

\* generate_funny_script from the point where the endpoints have been tried:
\* backup fallback, formatting, enhancement and the write of the script file.
\* Any exception (here: the write failing) is caught and gives None.
generate_funny_script(joke_data, backup_choice, write_ok) ==
  LET jd == IF ~Truthy(joke_data) THEN get_backup_joke(backup_choice) ELSE joke_data
  IN IF write_ok THEN enhance_script_for_video(format_script(jd)) ELSE None

\* ---------------------------------------------------------------- renderer

\* (mutant) the requested duration is taken as it is
create_video_from_script_NoClamp(script_data, compose_ok) ==
  IF compose_ok THEN [duration |-> Get(script_data, "duration", DefaultDuration)] ELSE None

\* create_video_from_script: the composed clip, of which the model keeps the
\* duration; None when composing raises
create_video_from_script(script_data, compose_ok) ==
  IF compose_ok
  THEN [duration |-> IF Get(script_data, "duration", DefaultDuration) < MaxShortsDuration
                     THEN Get(script_data, "duration", DefaultDuration)
                     ELSE MaxShortsDuration]
  ELSE None

\* (mutant) the exception of a failing export leaves create_video
create_video_Raises(script_data, run, compose_ok, export_ok) ==
  LET video_clip == create_video_from_script(script_data, compose_ok)
  IN IF ~Truthy(video_clip) THEN None
     ELSE IF ~export_ok THEN [exception |-> "OSError"]
     ELSE [file_path |-> run, kind |-> "video", duration |-> video_clip.duration]

\* create_video: the rendered file (named after the run that made it), or
\* None when no clip was composed or the export raises
create_video(script_data, run, compose_ok, export_ok) ==
  LET video_clip == create_video_from_script(script_data, compose_ok)
  IN IF ~Truthy(video_clip) THEN None
     ELSE IF ~export_ok THEN None
     ELSE [file_path |-> run, kind |-> "video", duration |-> video_clip.duration]

\* text_settings["fontsize"]
DefaultFontSize == 80

\* max(a, b) of two integers
max(a, b) == IF a >= b THEN a ELSE b

\* VideoCreator.create_text_clip, as far as the font size goes: fontsize is
\* <<>> for the default argument None and <<n>> for a requested size n.  The
\* result is the size the TextClip is made with (the fallback clip of the
\* except clause is made with the same size).
create_text_clip(text, fontsize) ==
  LET requested == IF fontsize = <<>> THEN DefaultFontSize ELSE fontsize[1]
  IN IF Len(text) > 50 THEN max(40, requested - 10)
     ELSE IF Len(text) > 100 THEN max(30, requested - 20)
     ELSE requested

\* ------------------------------------------------------- degraded renderer

\* the path of a file VideoCreatorLite wrote to videos/: its extension and
\* the second its name carries
LitePath(ext, ts) == [ext |-> ext, second |-> ts]

\* what loading the fonts can do: arial.ttf and seguiemj.ttf load, or only
\* ImageFont.load_default() does, or that fails as well
FontOutcomes == {"truetype", "default", "none"}

\* building text_lines finds the fields it indexes (no KeyError)
text_lines_ok(script_data) ==
  /\ "type" \in DOMAIN script_data
  /\ IF script_data["type"] = "dad_joke" /\ "setup" \in DOMAIN script_data
     THEN "punchline" \in DOMAIN script_data
     ELSE "script" \in DOMAIN script_data

\* (mutant) the failure to write the text file is not caught
create_text_file_Raises(script_data, write_ok, ts) ==
  IF write_ok THEN LitePath("txt", ts) ELSE [exception |-> "OSError"]

\* VideoCreatorLite.create_text_file: every field is read with a default, so
\* only the write can fail, and its exception is caught and gives None
create_text_file(script_data, write_ok, ts) ==
  IF write_ok THEN LitePath("txt", ts) ELSE None

\* VideoCreatorLite.create_text_image.  Without PIL, and when no font can be
\* loaded, it returns what create_text_file returns; any exception while the
\* image is made, drawn on or saved is caught and gives what create_text_file
\* returns.
create_text_image(script_data, pil_available, font, draw_ok, save_ok, write_ok, ts) ==
  IF ~pil_available THEN create_text_file(script_data, write_ok, ts)
  ELSE IF font = "none" THEN create_text_file(script_data, write_ok, ts)
  ELSE IF ~text_lines_ok(script_data) \/ ~draw_ok \/ ~save_ok
  THEN create_text_file(script_data, write_ok, ts)
  ELSE LitePath("jpg", ts)

\* VideoCreatorLite.create_video
create_video_lite(script_data, pil_available, font, draw_ok, save_ok, write_ok, ts) ==
  LET content_path == create_text_image(script_data, pil_available, font, draw_ok, save_ok,
                                        write_ok, ts)
  IN IF content_path = None THEN None ELSE content_path

\* no function called on its own yet
Uncalled == [op |-> "none"]

\* ---------------------------------------------------------------- uploader

\* Final responses, errors and progress reports of insert_request.next_chunk();
\* the statuses are a sample: one that is not retried and two that are
HttpStatuses == {404, 500, 503}

ChunkOutcomes ==
  {[kind |-> "response", response |-> [id |-> "abc123"]],
   [kind |-> "response", response |-> [error |-> "processingFailed"]],
   [kind |-> "progress"],
   [kind |-> "Exception"]}
    \cup {[kind |-> "HttpError", status |-> s] : s \in HttpStatuses}

\* (mutant) every HTTP error is retried
IsRetriable_Any(status) == status >= 400

\* if e.resp.status in [500, 502, 503, 504]
IsRetriable(status) == status \in {500, 502, 503, 504}

\* (mutant) the backoff counted from the zeroth attempt
Backoff_FromZero(retry) == 2 ^ (retry - 1)

\* time.sleep(2 ** retry)
Backoff(retry) == 2 ^ retry

\* ------------------------------------------------------------ orchestrator

base_tags == <<"funny", "comedy", "humor", "shorts", "viral", "laugh",
               "hilarious", "entertainment", "fun", "joke", "meme",
               "youtubeshorts", "short", "trending", "fyp", "foryou">>

\* str.lower(), letter by letter
LowerChar(c) ==
  CASE c = "A" -> "a" [] c = "B" -> "b" [] c = "C" -> "c" [] c = "D" -> "d"
    [] c = "E" -> "e" [] c = "F" -> "f" [] c = "G" -> "g" [] c = "H" -> "h"
    [] c = "I" -> "i" [] c = "J" -> "j" [] c = "K" -> "k" [] c = "L" -> "l"
    [] c = "M" -> "m" [] c = "N" -> "n" [] c = "O" -> "o" [] c = "P" -> "p"
    [] c = "Q" -> "q" [] c = "R" -> "r" [] c = "S" -> "s" [] c = "T" -> "t"
    [] c = "U" -> "u" [] c = "V" -> "v" [] c = "W" -> "w" [] c = "X" -> "x"
    [] c = "Y" -> "y" [] c = "Z" -> "z" [] OTHER -> c

RECURSIVE lower(_)
lower(s) == IF s = "" THEN "" ELSE LowerChar(Head(s)) \o lower(Tail(s))

\* (mutant) the list is returned without the cut
generate_tags_NoCut(script_data) ==
  IF "topic" \in DOMAIN script_data
  THEN base_tags \o split(lower(script_data["topic"]))
  ELSE base_tags

\* generate_tags
generate_tags(script_data) ==
  LET tags == IF "topic" \in DOMAIN script_data
              THEN base_tags \o split(lower(script_data["topic"]))
              ELSE base_tags
  IN SubSeq(tags, 1, IF Len(tags) < 15 THEN Len(tags) ELSE 15)

\* (mutant) the check of the video path is missing
generate_content_NoVideoCheck(script_data, video, metadata_ok) ==
  IF ~metadata_ok THEN None
  ELSE [video_path |-> Get(video, "file_path", 0),
        tags |-> generate_tags(script_data),
        script |-> script_data]

\* generate_content from the return of create_video on: no video gives None;
\* else the content record is built and the metadata file written, and a
\* failing write is caught and gives None
generate_content(script_data, video, metadata_ok) ==
  IF ~Truthy(video) THEN None
  ELSE IF ~metadata_ok THEN None
  ELSE [video_path |-> video.file_path,
        tags |-> generate_tags(script_data),
        script |-> script_data]

\* (mutant) the upload result is not checked
daily_automation_IgnoreUpload(content, upload) ==
  IF ~Truthy(content) THEN "False" ELSE "True"

\* daily_automation: False without content, False without an upload result,
\* True otherwise
daily_automation(content, upload) ==
  IF ~Truthy(content) THEN "False"
  ELSE IF upload = NoneStr \/ upload = "" THEN "False"
  ELSE "True"

\* One iteration of the while loop of _resumable_upload, given what
\* next_chunk did: the new error and retry, whether the function returns
\* (done) and with what, and the backoff sleeps of this iteration.
resumable_upload(error, retry, outcome) ==
  IF outcome.kind = "response"
  THEN [done |-> TRUE, error |-> error, retry |-> retry, sleep |-> <<>>,
        video_id |-> IF "id" \in DOMAIN outcome.response
                     THEN outcome.response["id"] ELSE NoneStr]
  ELSE IF outcome.kind = "HttpError" /\ ~IsRetriable(outcome.status)
  THEN [done |-> TRUE, error |-> error, retry |-> retry, sleep |-> <<>>, video_id |-> NoneStr]
  ELSE IF outcome.kind = "Exception"
  THEN [done |-> TRUE, error |-> "An error occurred", retry |-> retry, sleep |-> <<>>,
        video_id |-> NoneStr]
  ELSE LET err == IF outcome.kind = "HttpError"
                  THEN "A retriable HTTP error occurred" ELSE error
       IN IF err = NoneStr
          THEN [done |-> FALSE, error |-> err, retry |-> retry, sleep |-> <<>>,
                video_id |-> NoneStr]
          ELSE IF retry + 1 > MaxRetries
          THEN [done |-> TRUE, error |-> err, retry |-> retry + 1, sleep |-> <<>>,
                video_id |-> NoneStr]
          ELSE [done |-> FALSE, error |-> err, retry |-> retry + 1,
                sleep |-> <<Backoff(retry + 1)>>, video_id |-> NoneStr]

\* _save_upload_metadata: read the log, append the record, write it back;
\* a failing read or write is caught and leaves the log as it was
save_upload_metadata(log, video_id, video_path, tags, log_ok) ==
  IF log_ok
  THEN Append(log, [video_id |-> video_id, video_path |-> video_path, tags |-> tags])
  ELSE log

\* ------------------------------------------------------------ config store

\* The settings tree is kept as a function from key paths to what is stored
\* there: Missing, Mapping (a dict, whose entries are the paths below it) or
\* a leaf value.
Missing == "<missing>"
Mapping == "<dict>"

\* keys and leaf values of the default configuration that the model follows
Keys == {"automation", "daily_upload_time"}
Leaves == {"10:00", "18:30"}

TreePaths == {<<k>> : k \in Keys} \cup {<<k1, k2>> : k1, k2 \in Keys}

\* the dotted paths handed to get and set
KeyPaths == Keys \cup {k1 \o "." \o k2 : k1, k2 \in Keys}

\* str.split('.'): every dot separates, empty segments are kept
RECURSIVE SplitDots(_, _, _)
SplitDots(s, cur, acc) ==
  IF s = "" THEN Append(acc, cur)
  ELSE IF Head(s) = "." THEN SplitDots(Tail(s), "", Append(acc, cur))
       ELSE SplitDots(Tail(s), cur \o Head(s), acc)

split_dot(key_path) == SplitDots(key_path, "", <<>>)

Prefix(keys, i) == SubSeq(keys, 1, i)

\* p is a proper extension of q
Extends(p, q) == Len(p) > Len(q) /\ Prefix(p, Len(q)) = q

NodeAt(tree, p) == IF p \in DOMAIN tree THEN tree[p] ELSE Missing

\* isinstance(value, dict) for what is stored at p (the root is a dict)
IsDict(tree, p) == p = <<>> \/ NodeAt(tree, p) = Mapping

\* the Python value stored at p: a leaf, or a dict with all that is below it
ValueAt(tree, p) ==
  [value |-> NodeAt(tree, p),
   items |-> {<<q, tree[q]>> : q \in {r \in DOMAIN tree : Extends(r, p) /\ tree[r] /= Missing}}]

\* what get returns when it returns the default
DefaultValue(default) == [value |-> default, items |-> {}]

\* the for loop of Config.get from the i-th key on
RECURSIVE get_loop(_, _, _, _)
get_loop(tree, keys, i, default) ==
  IF i > Len(keys) THEN ValueAt(tree, keys)
  ELSE IF IsDict(tree, Prefix(keys, i - 1)) /\ NodeAt(tree, Prefix(keys, i)) /= Missing
  THEN get_loop(tree, keys, i + 1, default)
  ELSE DefaultValue(default)

\* config[keys[-1]] = value: the entry is replaced with all that was below it
Assign(tree, p, value) ==
  [q \in DOMAIN tree |-> IF q = p THEN value
                         ELSE IF Extends(q, p) THEN Missing
                         ELSE tree[q]]

\* (mutant) the for loop of set makes a new dict at every key on the way
RECURSIVE set_loop_Overwrite(_, _, _, _)
set_loop_Overwrite(tree, keys, i, value) ==
  IF i > Len(keys) - 1
  THEN IF IsDict(tree, Prefix(keys, Len(keys) - 1))
       THEN [raised |-> FALSE, settings |-> Assign(tree, keys, value)]
       ELSE [raised |-> TRUE, settings |-> tree]
  ELSE IF ~IsDict(tree, Prefix(keys, i - 1))
  THEN [raised |-> TRUE, settings |-> tree]
  ELSE set_loop_Overwrite(Assign(tree, Prefix(keys, i), Mapping), keys, i + 1, value)

\* The for loop of Config.set from the i-th key on, and the final
\* assignment.  A key that is missing gets an empty dict; stepping into, or
\* assigning into, a value that is not a dict raises TypeError.
RECURSIVE set_loop(_, _, _, _)
set_loop(tree, keys, i, value) ==
  IF i > Len(keys) - 1
  THEN IF IsDict(tree, Prefix(keys, Len(keys) - 1))
       THEN [raised |-> FALSE, settings |-> Assign(tree, keys, value)]
       ELSE [raised |-> TRUE, settings |-> tree]
  ELSE IF ~IsDict(tree, Prefix(keys, i - 1))
  THEN [raised |-> TRUE, settings |-> tree]
  ELSE IF NodeAt(tree, Prefix(keys, i)) = Missing
  THEN set_loop(Assign(tree, Prefix(keys, i), Mapping), keys, i + 1, value)
  ELSE set_loop(tree, keys, i + 1, value)

\* the settings of load_config's default_config, as far as the model follows
default_config ==
  [p \in TreePaths |-> IF p = <<"automation">> THEN Mapping
                       ELSE IF p = <<"automation", "daily_upload_time">> THEN "10:00"
                       ELSE Missing]

\* no call of get or set yet
NoCall == [op |-> "none"]

\* ----------------------------------------------------------- authentication

\* What youtube_credentials.pkl is: absent, a file pickle.load cannot read,
\* or a pickled credential.  Of a credential the model keeps what authenticate
\* asks it: whether it has an access token, whether that token's expiry has
\* passed, and whether it has a refresh token.
NoFile == [file |-> "absent"]
Unreadable == [file |-> "unreadable"]
Credentials ==
  [file : {"credentials"}, token : BOOLEAN, expired : BOOLEAN, refresh_token : BOOLEAN]
StoredStates == {NoFile, Unreadable} \cup Credentials

\* credentials.valid: there is a token and it has not expired
valid(credentials) == credentials.token /\ ~credentials.expired

\* credentials.refresh(Request()) that returns: a new token, not expired
Refreshed(credentials) == [credentials EXCEPT !.token = TRUE, !.expired = FALSE]

\* what flow.run_local_server can do: raise, or return a new credential
FlowRaises == [raised |-> "consent"]
FlowOutcomes == {FlowRaises} \cup {c \in Credentials : c.token /\ ~c.expired}

\* what open(..., 'wb') and pickle.dump can do to the credentials file
SaveOutcomes == {"saved", "unopened", "truncated"}

\* authenticate left through its except clause, or through the early return
AuthFailed(file, steps, error) ==
  [returned |-> FALSE, youtube |-> FALSE, file |-> file, steps |-> steps, error |-> error]

\* build(...) and the return that follows it
BuildService(file, steps, build_ok) ==
  IF build_ok
  THEN [returned |-> TRUE, youtube |-> TRUE, file |-> file, steps |-> Append(steps, "build"),
        error |-> "none"]
  ELSE AuthFailed(file, Append(steps, "build"), "build")

\* (mutant) the credential is saved only once the service was built
SaveAndBuild_BuildFirst(file, credentials, steps, save, build_ok) ==
  IF ~build_ok THEN AuthFailed(file, Append(steps, "build"), "build")
  ELSE IF save = "saved"
  THEN [returned |-> TRUE, youtube |-> TRUE, file |-> credentials,
        steps |-> steps \o <<"build", "save">>, error |-> "none"]
  ELSE IF save = "unopened" THEN AuthFailed(file, steps \o <<"build", "save">>, "save")
  ELSE AuthFailed(Unreadable, steps \o <<"build", "save">>, "save")

\* "Save credentials for next run", then the build
SaveAndBuild(file, credentials, steps, save, build_ok) ==
  IF save = "saved" THEN BuildService(credentials, Append(steps, "save"), build_ok)
  ELSE IF save = "unopened" THEN AuthFailed(file, Append(steps, "save"), "save")
  ELSE AuthFailed(Unreadable, Append(steps, "save"), "save")

\* the steps of authenticate up to the test of the loaded credential
LoadSteps(file) == IF file = NoFile THEN <<>> ELSE <<"load">>

\* (mutant) a credential that is not valid always goes to the consent flow
authenticate_NoRefresh(file, secrets, load_ok, refresh_ok, flow, save, build_ok) ==
  IF file /= NoFile /\ (file = Unreadable \/ ~load_ok)
  THEN AuthFailed(file, LoadSteps(file), "load")
  ELSE IF file = NoFile \/ ~valid(file)
  THEN IF ~secrets THEN AuthFailed(file, LoadSteps(file), "client_secrets")
       ELSE IF flow = FlowRaises
       THEN AuthFailed(file, Append(LoadSteps(file), "consent"), "consent")
       ELSE SaveAndBuild(file, flow, Append(LoadSteps(file), "consent"), save, build_ok)
  ELSE BuildService(file, LoadSteps(file), build_ok)

\* YouTubeUploader.authenticate.  file is the credentials file and secrets
\* whether client_secrets.json exists; the other arguments are what the
\* calls it makes do.  The result holds what it returned, whether
\* self.youtube is set, the credentials file afterwards, the steps it
\* entered in order, and where it failed.
authenticate(file, secrets, load_ok, refresh_ok, flow, save, build_ok) ==
  IF file /= NoFile /\ (file = Unreadable \/ ~load_ok)
  THEN AuthFailed(file, LoadSteps(file), "load")
  ELSE IF file = NoFile \/ ~valid(file)
  THEN IF file /= NoFile /\ file.expired /\ file.refresh_token
       THEN IF ~refresh_ok
            THEN AuthFailed(file, Append(LoadSteps(file), "refresh"), "refresh")
            ELSE SaveAndBuild(file, Refreshed(file), Append(LoadSteps(file), "refresh"),
                              save, build_ok)
       ELSE IF ~secrets THEN AuthFailed(file, LoadSteps(file), "client_secrets")
       ELSE IF flow = FlowRaises
       THEN AuthFailed(file, Append(LoadSteps(file), "consent"), "consent")
       ELSE SaveAndBuild(file, flow, Append(LoadSteps(file), "consent"), save, build_ok)
  ELSE BuildService(file, LoadSteps(file), build_ok)

\* no uploader constructed yet
NoAuth == [op |-> "none"]

\* ------------------------------------------------------------------- state

VARIABLES
  pc,            \* position of the pipeline thread
  runs,          \* daily_automation invocations so far
  result,        \* what the last daily_automation returned
  trace,         \* stage functions called in the current run, in order
  joke_apis,     \* ScriptGenerator.joke_apis (shuffled in place)
  api_idx,       \* position of the for loop of get_joke_from_apis
  fetched,       \* endpoints requested in the current fetch, with what they did
  joke_data,     \* local of generate_funny_script
  script_data,   \* what generate_funny_script returned
  script_file,   \* the script artifact the current run wrote to scripts/, if any
  asset,         \* what create_video returned, with the duration of the file
  content_data,  \* what generate_content returned
  youtube,       \* YouTubeUploader.youtube is set (authentication succeeded)
  error,         \* local of _resumable_upload
  retry,         \* local of _resumable_upload
  chunk_log,     \* what each next_chunk call of the current upload did
  sleeps,        \* the time.sleep durations of the current upload, in order
  video_id,      \* what _resumable_upload returned
  upload_result, \* what YouTubeUploader.upload_video returned
  uploads_log    \* uploads_log.json

\* The processes around the pipeline: the module import of main.py, the
\* dashboard's globals and threads, the schedule registries and the files
\* the runs share.
VARIABLES
  installed,     \* which of moviepy and video_creator.py the installation has
  renderer,      \* the class main.py bound to the name VideoCreator at import
  is_running,    \* web_app.is_running
  automation,    \* web_app.automation is set
  thr,           \* position and locals of each thread
  jobs,          \* the job registered with schedule in this process
  alarm_passed,  \* the alarm time passed while the polling loop was running (history)
  alarms,        \* times the daily alarm time has passed
  second,        \* the wall clock, in seconds
  files          \* videos/: for each timestamped path, the run whose content it holds

\* The configuration store.
VARIABLES
  settings,      \* Config.settings
  config_saved,  \* config.json holds what settings holds
  cfg_call       \* the last call of Config.get or Config.set: its arguments, its
                 \* local keys and what it did

\* The files authenticate reads and writes.
VARIABLES
  credentials_file,  \* youtube_credentials.pkl
  client_secrets,    \* client_secrets.json exists
  auth               \* the last call of authenticate: what it found stored, the
                     \* steps it entered and how it ended

\* A function of the renderers called on its own.
VARIABLES
  call               \* the last such call: its arguments, what the calls it made
                     \* did, and what it returned

\* The daily job of the scheduler.
VARIABLES
  alarm_at           \* the time of day the registered job is set to run at
                     \* ("none" while no job is registered)

config_vars == <<settings, config_saved, cfg_call>>

auth_vars == <<credentials_file, client_secrets, auth>>

pipeline_vars == <<pc, runs, result, trace, joke_apis, api_idx, fetched, joke_data, script_data,
                   script_file,
                   asset, content_data, youtube, error, retry, chunk_log, sleeps, video_id,
                   upload_result, uploads_log>>

dash_vars == <<installed, renderer, is_running, automation, thr, jobs, alarm_passed, alarms, second,
               files>>

\* what the steps of the pipeline thread leave alone
ext_vars == <<dash_vars, config_vars, auth_vars, call, alarm_at>>

vars == <<pipeline_vars, ext_vars>>

fetch_vars == <<api_idx, fetched, joke_data>>
upload_vars == <<error, retry, chunk_log, sleeps, video_id, upload_result>>

\* ------------------------------------------------- threads and processes

\* The CLI scheduler process, the dashboard's worker threads and the threads
\* of manual triggers (a request to the test endpoint, or python main.py --test).
Workers == {"w1", "w2"}
Triggers == {"t1", "t2"}

\* the threads of the dashboard process, and the CLI scheduler process with
\* a python main.py --test beside it
DashThreads == Workers \cup Triggers
CliThreads == {"cli", "t1"}

\* file names made by strftime("%Y%m%d_%H%M%S")
Paths == 0..MaxSecond

\* a thread that is not running, with the locals of daily_automation unset
NoThread == [pc |-> "off", run |-> 0, video_path |-> 0, log |-> <<>>]

\* what is installed: moviepy, and the file video_creator.py itself
Installations == [moviepy : BOOLEAN, video_creator : BOOLEAN]

\* the given threads, none of them started
ProcInit(threads) ==
  /\ is_running = FALSE
  /\ automation = FALSE
  /\ thr = [t \in threads |-> NoThread]
  /\ jobs = "none"
  /\ alarm_passed = FALSE
  /\ alarms = 0
  /\ second = 0
  /\ files = [p \in Paths |-> 0]

\* the configuration as Config() makes it, with no call of get or set
ConfigIdle ==
  /\ settings = default_config
  /\ config_saved = TRUE
  /\ cfg_call = NoCall

\* no uploader constructed in the process yet: client_secrets.json is there
\* and no credential is stored
AuthIdle ==
  /\ credentials_file = NoFile
  /\ client_secrets = TRUE
  /\ auth = NoAuth

\* no renderer function called on its own
CallIdle == call = Uncalled

\* schedule holds no job
NoJob == alarm_at = "none"

\* the pipeline thread on its own: a complete installation, main.py imported
PipelineExt ==
  /\ installed = [moviepy |-> TRUE, video_creator |-> TRUE]
  /\ renderer = "VideoCreator"
  /\ ProcInit({})
  /\ ConfigIdle
  /\ AuthIdle
  /\ CallIdle
  /\ NoJob

\* the locals of a run before it has assigned them
FreshLocals ==
  /\ api_idx = 0
  /\ fetched = <<>>
  /\ joke_data = None
  /\ script_data = None
  /\ script_file = None
  /\ asset = None
  /\ content_data = None
  /\ error = NoneStr
  /\ retry = 0
  /\ chunk_log = <<>>
  /\ sleeps = <<>>
  /\ video_id = NoneStr
  /\ upload_result = NoneStr

\* a new run starts with fresh locals
ResetLocals ==
  /\ api_idx' = 0
  /\ fetched' = <<>>
  /\ joke_data' = None
  /\ script_data' = None
  /\ script_file' = None
  /\ asset' = None
  /\ content_data' = None
  /\ error' = NoneStr
  /\ retry' = 0
  /\ chunk_log' = <<>>
  /\ sleeps' = <<>>
  /\ video_id' = NoneStr
  /\ upload_result' = NoneStr

\* YouTubeShortsAutomation.__init__: the uploader may or may not have
\* authenticated; nothing has run yet.
Init ==
  /\ pc = "Idle"
  /\ runs = 0
  /\ result = "pending"
  /\ trace = <<>>
  /\ joke_apis = joke_apis_init
  /\ youtube \in BOOLEAN
  /\ uploads_log = <<>>
  /\ FreshLocals
  /\ PipelineExt

\* daily_automation is entered (alarm or manual trigger); generate_content
\* calls generate_funny_script.
DailyAutomation ==
  /\ pc = "Idle"
  /\ runs < MaxRuns
  /\ runs' = runs + 1
  /\ result' = "pending"
  /\ trace' = <<"generate_funny_script">>
  /\ pc' = "get_joke_from_apis"
  /\ ResetLocals
  /\ UNCHANGED <<joke_apis, youtube, uploads_log>>
  /\ UNCHANGED ext_vars

\* get_joke_from_apis: random.shuffle(self.joke_apis)
Shuffle ==
  /\ pc = "get_joke_from_apis"
  /\ joke_apis' \in Shuffles
  /\ api_idx' = 1
  /\ pc' = "fetch_joke_from_api"
  /\ UNCHANGED <<runs, result, trace, fetched, joke_data, script_data, script_file, asset, content_data,
                 youtube, upload_vars, uploads_log>>
  /\ UNCHANGED ext_vars

\* (mutant) the loop goes on to the next endpoint after one gave a joke
FetchJoke_GoOn ==
  /\ pc = "fetch_joke_from_api"
  /\ \E outcome \in ApiOutcomes :
       LET api_url == joke_apis[api_idx]
           jd == fetch_joke_from_api(api_url, outcome)
       IN /\ fetched' = Append(fetched, [api_url |-> api_url, outcome |-> outcome])
          /\ joke_data' = IF Truthy(jd) THEN jd ELSE joke_data
          /\ IF api_idx = Len(joke_apis)
             THEN pc' = "format_script" /\ UNCHANGED api_idx
             ELSE api_idx' = api_idx + 1 /\ UNCHANGED pc
  /\ UNCHANGED <<runs, result, trace, joke_apis, script_data, script_file, asset, content_data,
                 youtube, upload_vars, uploads_log>>
  /\ UNCHANGED ext_vars

\* One iteration of the for loop of get_joke_from_apis: request the endpoint,
\* return its joke if it is truthy, else go on; after the last endpoint the
\* function returns None.
FetchJoke ==
  /\ pc = "fetch_joke_from_api"
  /\ \E outcome \in ApiOutcomes :
       LET api_url == joke_apis[api_idx]
           jd == fetch_joke_from_api(api_url, outcome)
       IN /\ fetched' = Append(fetched, [api_url |-> api_url, outcome |-> outcome])
          /\ IF Truthy(jd)
             THEN /\ joke_data' = jd
                  /\ pc' = "format_script"
                  /\ UNCHANGED api_idx
             ELSE IF api_idx = Len(joke_apis)
             THEN /\ joke_data' = None
                  /\ pc' = "format_script"
                  /\ UNCHANGED api_idx
             ELSE /\ api_idx' = api_idx + 1
                  /\ UNCHANGED <<joke_data, pc>>
  /\ UNCHANGED <<runs, result, trace, joke_apis, script_data, script_file, asset, content_data,
                 youtube, upload_vars, uploads_log>>
  /\ UNCHANGED ext_vars

\* The rest of generate_funny_script: backup fallback, format, enhance, save.
FormatAndSave ==
  /\ pc = "format_script"
  /\ \E backup_choice \in 1..Len(backup_jokes), write_ok \in BOOLEAN :
       /\ joke_data' = IF ~Truthy(joke_data) THEN get_backup_joke(backup_choice) ELSE joke_data
       /\ script_data' = generate_funny_script(joke_data, backup_choice, write_ok)
       /\ script_file' = IF write_ok
                         THEN enhance_script_for_video(format_script(joke_data'))
                         ELSE None
  /\ pc' = "generate_funny_script_ret"
  /\ UNCHANGED <<runs, result, trace, joke_apis, api_idx, fetched, asset, content_data,
                 youtube, upload_vars, uploads_log>>
  /\ UNCHANGED ext_vars

\* generate_content after generate_funny_script returned: no script ends the
\* run (daily_automation returns False); otherwise create_video is called.
ScriptReturned ==
  /\ pc = "generate_funny_script_ret"
  /\ IF ~Truthy(script_data)
     THEN /\ result' = daily_automation(None, NoneStr)
          /\ pc' = "Idle"
          /\ UNCHANGED trace
     ELSE /\ trace' = Append(trace, "create_video")
          /\ pc' = "create_video"
          /\ UNCHANGED result
  /\ api_idx' = 0
  /\ fetched' = <<>>
  /\ joke_data' = None
  /\ UNCHANGED <<runs, joke_apis, script_data, script_file, asset, content_data, youtube, upload_vars,
                 uploads_log>>
  /\ UNCHANGED ext_vars

\* VideoCreator.create_video
CreateVideo ==
  /\ pc = "create_video"
  /\ \E compose_ok, export_ok \in BOOLEAN :
       asset' = create_video(script_data, runs, compose_ok, export_ok)
  /\ pc' = "create_video_ret"
  /\ UNCHANGED <<runs, result, trace, joke_apis, fetch_vars, script_data, script_file, content_data,
                 youtube, upload_vars, uploads_log>>
  /\ UNCHANGED ext_vars

\* generate_content after create_video returned: no video ends the run; else
\* title, tags and description are made and the metadata file is written (a
\* failing write is caught and ends the run); then daily_automation calls
\* upload_video.
VideoReturned ==
  /\ pc = "create_video_ret"
  /\ \E metadata_ok \in BOOLEAN :
       /\ content_data' = generate_content(script_data, asset, metadata_ok)
       /\ IF ~Truthy(content_data')
          THEN /\ result' = daily_automation(content_data', NoneStr)
               /\ pc' = "Idle"
               /\ UNCHANGED trace
          ELSE /\ trace' = Append(trace, "upload_video")
               /\ pc' = "upload_video"
               /\ UNCHANGED result
  /\ UNCHANGED <<runs, joke_apis, fetch_vars, script_data, script_file, asset, youtube,
                 upload_vars, uploads_log>>
  /\ UNCHANGED ext_vars

\* YouTubeUploader.upload_video up to the call of _resumable_upload
UploadBegin ==
  /\ pc = "upload_video"
  /\ \E file_exists \in BOOLEAN :
       IF ~youtube \/ ~file_exists
       THEN /\ upload_result' = NoneStr
            /\ pc' = "upload_video_ret"
       ELSE /\ pc' = "next_chunk"
            /\ UNCHANGED upload_result
  /\ UNCHANGED <<runs, result, trace, joke_apis, fetch_vars, script_data, script_file, asset, content_data,
                 youtube, error, retry, chunk_log, sleeps, video_id, uploads_log>>
  /\ UNCHANGED ext_vars

ProgressCount(log) == Cardinality({i \in DOMAIN log : log[i].kind = "progress"})

\* One iteration of the while loop of _resumable_upload
NextChunk ==
  /\ pc = "next_chunk"
  /\ \E outcome \in ChunkOutcomes :
       /\ outcome.kind = "progress" => ProgressCount(chunk_log) < MaxProgress
       /\ chunk_log' = Append(chunk_log, outcome)
       /\ LET it == resumable_upload(error, retry, outcome)
          IN /\ error' = it.error
             /\ retry' = it.retry
             /\ sleeps' = sleeps \o it.sleep
             /\ video_id' = it.video_id
             /\ pc' = IF it.done THEN "resumable_upload_ret" ELSE "next_chunk"
  /\ UNCHANGED <<runs, result, trace, joke_apis, fetch_vars, script_data, script_file, asset, content_data,
                 youtube, upload_result, uploads_log>>
  /\ UNCHANGED ext_vars

\* YouTubeUploader.upload_video after _resumable_upload returned
ResumableReturned ==
  /\ pc = "resumable_upload_ret"
  /\ IF video_id /= NoneStr /\ video_id /= ""
     THEN \E log_ok \in BOOLEAN :
            /\ uploads_log' = save_upload_metadata(uploads_log, video_id,
                                                   content_data.video_path, content_data.tags, log_ok)
            /\ upload_result' = video_id
     ELSE /\ upload_result' = NoneStr
          /\ UNCHANGED uploads_log
  /\ pc' = "upload_video_ret"
  /\ UNCHANGED <<runs, result, trace, joke_apis, fetch_vars, script_data, script_file, asset, content_data,
                 youtube, error, retry, chunk_log, sleeps, video_id>>
  /\ UNCHANGED ext_vars

\* YouTubeShortsAutomation.upload_video and the end of daily_automation
UploadReturned ==
  /\ pc = "upload_video_ret"
  /\ result' = daily_automation(content_data, upload_result)
  /\ pc' = "Idle"
  /\ UNCHANGED <<runs, trace, joke_apis, fetch_vars, script_data, script_file, asset, content_data,
                 youtube, upload_vars, uploads_log>>
  /\ UNCHANGED ext_vars

Next ==
  \/ DailyAutomation
  \/ Shuffle
  \/ FetchJoke
  \/ FormatAndSave
  \/ ScriptReturned
  \/ CreateVideo
  \/ VideoReturned
  \/ UploadBegin
  \/ NextChunk
  \/ ResumableReturned
  \/ UploadReturned

Spec == Init /\ [][Next]_vars

\* The steps of a run once daily_automation has been entered: sequential
\* code of one thread, so a run that can take a step eventually takes it.
RunStep ==
  \/ Shuffle
  \/ FetchJoke
  \/ FormatAndSave
  \/ ScriptReturned
  \/ CreateVideo
  \/ VideoReturned
  \/ UploadBegin
  \/ NextChunk
  \/ ResumableReturned
  \/ UploadReturned

FairSpec == Spec /\ WF_vars(RunStep)

\* ------------------------------------------- the renderer exercised alone

\* Script records handed to create_video directly (as the module's own test
\* block does), with any requested duration or none.
Durations == (0..MaxDuration) \cup {500}

RenderInputs ==
  {[script |-> "Why? Because!", setup |-> "Why?", punchline |-> "Because!",
    type |-> "dad_joke", duration |-> d] : d \in Durations}
    \cup {[script |-> "One.", type |-> "one_liner", duration |-> d] : d \in Durations}
    \cup {[script |-> "One.", type |-> "one_liner"]}

InitRender ==
  /\ pc = "create_video"
  /\ runs = 1
  /\ result = "pending"
  /\ trace = <<"create_video">>
  /\ joke_apis = joke_apis_init
  /\ youtube = FALSE
  /\ uploads_log = <<>>
  /\ api_idx = 0
  /\ fetched = <<>>
  /\ joke_data = None
  /\ script_data \in RenderInputs
  /\ script_file = None
  /\ asset = None
  /\ content_data = None
  /\ error = NoneStr
  /\ retry = 0
  /\ chunk_log = <<>>
  /\ sleeps = <<>>
  /\ video_id = NoneStr
  /\ upload_result = NoneStr
  /\ PipelineExt

NextRender == CreateVideo

SpecRender == InitRender /\ [][NextRender]_vars

\* ------------------------------- the pipeline from the rendered video on

\* a topic of n words
RECURSIVE Topic(_)
Topic(n) == IF n = 0 THEN "" ELSE IF n = 1 THEN "Cats" ELSE Topic(n - 1) \o " And Dogs"

\* Script records as generate_content may hold them when create_video has
\* returned: without a topic, or with a topic of up to MaxTopicWords words.
TagInputs ==
  {[script |-> "One.", type |-> "one_liner", duration |-> OneLinerDuration]}
    \cup {[script |-> "One.", type |-> "one_liner", duration |-> OneLinerDuration,
           topic |-> Topic(n)] : n \in 0..MaxTopicWords}

InitTags ==
  /\ pc = "create_video_ret"
  /\ runs = 1
  /\ result = "pending"
  /\ trace = <<"generate_funny_script", "create_video">>
  /\ joke_apis = joke_apis_init
  /\ youtube = TRUE
  /\ uploads_log = <<>>
  /\ api_idx = 0
  /\ fetched = <<>>
  /\ joke_data = None
  /\ script_data \in TagInputs
  /\ script_file = script_data
  /\ asset = [file_path |-> 1, kind |-> "video", duration |-> OneLinerDuration]
  /\ content_data = None
  /\ error = NoneStr
  /\ retry = 0
  /\ chunk_log = <<>>
  /\ sleeps = <<>>
  /\ video_id = NoneStr
  /\ upload_result = NoneStr
  /\ PipelineExt

NextTags ==
  \/ VideoReturned
  \/ UploadBegin
  \/ NextChunk
  \/ ResumableReturned
  \/ UploadReturned

SpecTags == InitTags /\ [][NextTags]_vars

\* --------------------------------------------------- the config store alone

\* Config() with no config.json, or with one that the defaults were merged
\* with (where the user may have put a plain value for "automation")
InitConfig ==
  /\ pc = "Idle"
  /\ runs = 0
  /\ result = "pending"
  /\ trace = <<>>
  /\ joke_apis = joke_apis_init
  /\ youtube = FALSE
  /\ uploads_log = <<>>
  /\ FreshLocals
  /\ installed = [moviepy |-> TRUE, video_creator |-> TRUE]
  /\ renderer = "VideoCreator"
  /\ ProcInit({})
  /\ settings \in {default_config, Assign(default_config, <<"automation">>, "18:30")}
  /\ config_saved = TRUE
  /\ cfg_call = NoCall
  /\ AuthIdle
  /\ CallIdle
  /\ NoJob

\* Config.get(key_path, default)
ConfigGet ==
  /\ \E key_path \in KeyPaths, default \in {"<default>"} :
       \E keys \in {split_dot(key_path)} :
         cfg_call' = [op |-> "get", key_path |-> key_path, keys |-> keys,
                      default |-> default, returned |-> get_loop(settings, keys, 1, default)]
  /\ UNCHANGED <<pipeline_vars, dash_vars, auth_vars, call, alarm_at, settings, config_saved>>

\* Config.set(key_path, value): the walk, the assignment and save_config
\* (whose failure is caught); a TypeError leaves set before the save
ConfigSet ==
  /\ \E key_path \in KeyPaths :
       \E keys \in {split_dot(key_path)}, value \in Leaves \cup {Mapping}, save_ok \in BOOLEAN :
         LET r == set_loop(settings, keys, 1, value)
         IN /\ settings' = r.settings
            /\ config_saved' = IF r.raised THEN config_saved ELSE save_ok
            /\ cfg_call' = [op |-> "set", key_path |-> key_path, keys |-> keys,
                            value |-> value, raised |-> r.raised]
  /\ UNCHANGED <<pipeline_vars, dash_vars, auth_vars, call, alarm_at>>

NextConfig ==
  \/ ConfigGet
  \/ ConfigSet

SpecConfig == InitConfig /\ [][NextConfig]_vars

\* ------------------------------------------------- authentication alone

\* pipeline variables that constructing an uploader leaves alone
auth_frozen == <<pc, runs, result, trace, joke_apis, api_idx, fetched, joke_data, script_data,
                 script_file, asset, content_data, error, retry, chunk_log, sleeps, video_id,
                 upload_result, uploads_log, dash_vars, config_vars, call, alarm_at>>

\* a process about to construct its uploader, with whatever earlier
\* processes left in the working directory
InitAuth ==
  /\ pc = "Idle"
  /\ runs = 0
  /\ result = "pending"
  /\ trace = <<>>
  /\ joke_apis = joke_apis_init
  /\ youtube = FALSE
  /\ uploads_log = <<>>
  /\ FreshLocals
  /\ installed = [moviepy |-> TRUE, video_creator |-> TRUE]
  /\ renderer = "VideoCreator"
  /\ ProcInit({})
  /\ ConfigIdle
  /\ credentials_file \in StoredStates
  /\ client_secrets \in BOOLEAN
  /\ auth = NoAuth
  /\ CallIdle
  /\ NoJob

\* YouTubeUploader(): self.youtube = None, then authenticate()
NewUploader ==
  /\ \E load_ok, refresh_ok, build_ok \in BOOLEAN, flow \in FlowOutcomes, save \in SaveOutcomes :
       LET r == authenticate(credentials_file, client_secrets, load_ok, refresh_ok, flow, save,
                             build_ok)
       IN /\ youtube' = r.youtube
          /\ credentials_file' = r.file
          /\ auth' = [op |-> "authenticate", stored |-> credentials_file,
                      returned |-> r.returned, steps |-> r.steps, error |-> r.error]
  /\ UNCHANGED <<auth_frozen, client_secrets>>

\* time passes the expiry of the stored credential's token
TokenExpires ==
  /\ credentials_file \in Credentials
  /\ ~credentials_file.expired
  /\ credentials_file' = [credentials_file EXCEPT !.expired = TRUE]
  /\ UNCHANGED <<pipeline_vars, dash_vars, config_vars, call, alarm_at, client_secrets, auth>>

\* the user puts client_secrets.json in place, as the log message asks
DownloadClientSecrets ==
  /\ ~client_secrets
  /\ client_secrets' = TRUE
  /\ UNCHANGED <<pipeline_vars, dash_vars, config_vars, call, alarm_at, credentials_file, auth>>

NextAuth ==
  \/ NewUploader
  \/ TokenExpires
  \/ DownloadClientSecrets

SpecAuth == InitAuth /\ [][NextAuth]_vars

\* ---------------------------------------------------- format_script alone

\* a text of n words, the blanks between them single or double
RECURSIVE JokeText(_)
JokeText(n) ==
  IF n = 0 THEN ""
  ELSE IF n = 1 THEN "ha"
  ELSE JokeText(n - 1) \o (IF n % 2 = 0 THEN "  " ELSE " ") \o "ha"

JokeTexts == {JokeText(n) : n \in 0..MaxJokeWords}

\* the fields a joke record may carry besides its type
SetupFields ==
  {<<>>} \cup {[punchline |-> p] : p \in JokeTexts}
         \cup {[setup |-> s, punchline |-> p] : s, p \in JokeTexts}

JokeFields == {<<>>} \cup {[joke |-> j] : j \in JokeTexts}

\* Joke records of every kind the generator names, with and without the
\* fields format_script looks for
FormatInputs ==
  {[type |-> k] @@ sp @@ jk :
     k \in {"dad_joke", "one_liner", "story_joke"}, sp \in SetupFields, jk \in JokeFields}

InitFormat ==
  /\ pc = "format_script"
  /\ runs = 1
  /\ result = "pending"
  /\ trace = <<>>
  /\ joke_apis = joke_apis_init
  /\ youtube = FALSE
  /\ uploads_log = <<>>
  /\ api_idx = 0
  /\ fetched = <<>>
  /\ joke_data \in FormatInputs
  /\ script_data = None
  /\ script_file = None
  /\ asset = None
  /\ content_data = None
  /\ error = NoneStr
  /\ retry = 0
  /\ chunk_log = <<>>
  /\ sleeps = <<>>
  /\ video_id = NoneStr
  /\ upload_result = NoneStr
  /\ PipelineExt

\* script_data = self.format_script(joke_data)
FormatScript ==
  /\ pc = "format_script"
  /\ script_data' = format_script(joke_data)
  /\ pc' = "enhance_script_for_video"
  /\ UNCHANGED <<runs, result, trace, joke_apis, api_idx, fetched, joke_data, script_file, asset,
                 content_data, youtube, error, retry, chunk_log, sleeps, video_id, upload_result,
                 uploads_log, ext_vars>>

NextFormat == FormatScript

SpecFormat == InitFormat /\ [][NextFormat]_vars

\* ------------------------------------- the processes around the pipeline

\* What "from video_creator import VideoCreator" does.  Without the file the
\* import raises ImportError.  With it, the module's own guard swallows the
\* ImportError of a missing moviepy, and the class body then reaches
\* annotations that name VideoFileClip: an interpreter that evaluates
\* annotations at definition time raises NameError, one that defers them
\* binds the class.
import_video_creator(inst) ==
  IF ~inst.video_creator THEN {"ImportError"}
  ELSE IF inst.moviepy THEN {"VideoCreator"}
  ELSE {"NameError", "VideoCreator"}

\* main.py: try: from video_creator import VideoCreator
\*          except ImportError: from video_creator_lite import VideoCreatorLite as VideoCreator
import_main(inst) ==
  {IF o = "ImportError" THEN "VideoCreatorLite" ELSE o : o \in import_video_creator(inst)}

\* the threads of the process(es) modelled
Threads == DOMAIN thr

\* main.py was imported: the process runs
Started == renderer \in {"VideoCreator", "VideoCreatorLite"}

\* a polling loop of the process is running: start_scheduler's, or a worker's
\* while the flag is set
Polling ==
  \E t \in Threads \ Triggers :
    /\ thr[t].pc \in {"while", "run_pending"}
    /\ t \in Workers => is_running

\* the thread is inside daily_automation
InRun(t) == thr[t].pc \in {"generate_content", "upload_video", "save_upload_metadata"}

\* what the steps of the processes leave alone, but for the registration of
\* the daily job
process_frozen == <<pc, result, trace, joke_apis, api_idx, fetched, joke_data, script_data,
                    script_file, asset, content_data, youtube, error, retry, chunk_log,
                    sleeps, video_id, upload_result, config_vars, auth_vars, call>>

\* what the steps of the processes leave alone
pipeline_frozen == <<process_frozen, alarm_at>>

\* the thread enters daily_automation as the next run
Enter(t) == [thr EXCEPT ![t] = [pc |-> "generate_content", run |-> runs + 1,
                               video_path |-> 0, log |-> <<>>]]

\* daily_automation returned in thread t: a manual trigger is over; a polling
\* loop goes on to time.sleep(60) and its next test of the loop condition
Leave(t) == [thr EXCEPT ![t] = [NoThread EXCEPT !.pc = IF t \in Triggers THEN "off" ELSE "while"]]

\* schedule plans the job's next run once the job function has returned
JobsAfterRun(t) == IF t \in Triggers THEN jobs ELSE "scheduled"

\* The dashboard process once web_app.py has imported main.py on a complete
\* installation with stored credentials: no worker yet, nothing scheduled.
\* Its runs are followed within one second of the wall clock.
InitDash ==
  /\ pc = "Idle"
  /\ runs = 0
  /\ result = "pending"
  /\ trace = <<>>
  /\ joke_apis = joke_apis_init
  /\ youtube = TRUE
  /\ uploads_log = <<>>
  /\ FreshLocals
  /\ installed = [moviepy |-> TRUE, video_creator |-> TRUE]
  /\ renderer = "VideoCreator"
  /\ ProcInit(DashThreads)
  /\ ConfigIdle
  /\ AuthIdle
  /\ CallIdle
  /\ NoJob

\* python main.py on any installation, before its imports ran
InitCli ==
  /\ pc = "Idle"
  /\ runs = 0
  /\ result = "pending"
  /\ trace = <<>>
  /\ joke_apis = joke_apis_init
  /\ youtube \in BOOLEAN
  /\ uploads_log = <<>>
  /\ FreshLocals
  /\ installed \in Installations
  /\ renderer = "unbound"
  /\ ProcInit(CliThreads)
  /\ ConfigIdle
  /\ AuthIdle
  /\ CallIdle
  /\ NoJob

\* python main.py reaches the import of the renderer
ImportMain ==
  /\ renderer = "unbound"
  /\ renderer' \in import_main(installed)
  /\ UNCHANGED <<pipeline_frozen, runs, uploads_log, installed, is_running, automation, thr,
                 jobs, alarm_passed, alarms, second, files>>

\* main() without --test: the orchestrator is constructed (which may raise)
\* and start_scheduler registers the daily job and enters its loop
StartCli ==
  /\ Started
  /\ "cli" \in Threads
  /\ thr["cli"].pc = "off"
  /\ jobs = "none"
  /\ \E init_ok \in BOOLEAN :
       IF init_ok
       THEN /\ jobs' = "scheduled"
            /\ alarm_at' = "10:00"
            /\ thr' = [thr EXCEPT !["cli"].pc = "while"]
       ELSE /\ jobs' = "crashed"
            /\ UNCHANGED <<thr, alarm_at>>
  /\ UNCHANGED <<process_frozen, runs, uploads_log, installed, renderer, is_running, automation,
                 alarm_passed, alarms, second, files>>

\* web_app.start_automation: sets the flag and starts a worker thread, unless
\* the flag is already set
StartAutomation ==
  /\ Started
  /\ IF ~is_running
     THEN /\ is_running' = TRUE
          /\ \E w \in Workers :
               /\ thr[w].pc = "off"
               /\ thr' = [thr EXCEPT ![w].pc = "init"]
     ELSE UNCHANGED <<is_running, thr>>
  /\ UNCHANGED <<pipeline_frozen, runs, uploads_log, installed, renderer, automation, jobs,
                 alarm_passed, alarms, second, files>>

\* (mutant) stopping also abandons the runs in progress
StopAutomation_Interrupt ==
  /\ Started
  /\ is_running' = FALSE
  /\ thr' = [t \in Threads |-> IF InRun(t) THEN NoThread ELSE thr[t]]
  /\ UNCHANGED <<pipeline_frozen, runs, uploads_log, installed, renderer, automation, jobs,
                 alarm_passed, alarms, second, files>>

\* web_app.stop_automation
StopAutomation ==
  /\ Started
  /\ is_running' = FALSE
  /\ UNCHANGED <<pipeline_frozen, runs, uploads_log, installed, renderer, automation, thr, jobs,
                 alarm_passed, alarms, second, files>>

\* automation_worker up to its loop: automation = YouTubeShortsAutomation();
\* an exception clears the flag and ends the thread
WorkerInit(w) ==
  /\ w \in Workers
  /\ thr[w].pc = "init"
  /\ \E init_ok \in BOOLEAN :
       IF init_ok
       THEN /\ automation' = TRUE
            /\ thr' = [thr EXCEPT ![w].pc = "while"]
            /\ UNCHANGED is_running
       ELSE /\ is_running' = FALSE
            /\ thr' = [thr EXCEPT ![w].pc = "off"]
            /\ UNCHANGED automation
  /\ UNCHANGED <<pipeline_frozen, runs, uploads_log, installed, renderer, jobs,
                 alarm_passed, alarms, second, files>>

\* The test of the loop condition once time.sleep(60) is over (or on entry):
\* while is_running in automation_worker, where a cleared flag ends the
\* thread; while True in start_scheduler
WhileCheck(t) ==
  /\ thr[t].pc = "while"
  /\ thr' = [thr EXCEPT ![t].pc = IF t \in Workers /\ ~is_running THEN "off"
                                   ELSE "run_pending"]
  /\ UNCHANGED <<pipeline_frozen, runs, uploads_log, installed, renderer, is_running, automation,
                 jobs, alarm_passed, alarms, second, files>>

\* schedule.run_pending() in a polling loop: a job of this process that is
\* due is run in this thread; then time.sleep(60)
RunPending(t) ==
  /\ thr[t].pc = "run_pending"
  /\ IF jobs = "due"
     THEN /\ thr' = Enter(t)
          /\ runs' = runs + 1
          /\ alarm_passed' = FALSE
     ELSE /\ thr' = [thr EXCEPT ![t].pc = "while"]
          /\ UNCHANGED <<runs, alarm_passed>>
  /\ UNCHANGED <<pipeline_frozen, uploads_log, installed, renderer, is_running, automation,
                 jobs, alarms, second, files>>

\* web_app.test_automation: if automation: result = automation.daily_automation()
TestAutomation(t) ==
  /\ t \in Triggers \cap Threads
  /\ Started
  /\ thr[t].pc = "off"
  /\ runs < MaxTriggered
  /\ automation
  /\ thr' = Enter(t)
  /\ runs' = runs + 1
  /\ UNCHANGED <<pipeline_frozen, uploads_log, installed, renderer, is_running, automation,
                 jobs, alarm_passed, alarms, second, files>>

\* python main.py --test: automation.daily_automation() in a process of its own
MainTest(t) ==
  /\ t \in Triggers \cap Threads
  /\ Started
  /\ thr[t].pc = "off"
  /\ runs < MaxTriggered
  /\ thr' = Enter(t)
  /\ runs' = runs + 1
  /\ UNCHANGED <<pipeline_frozen, uploads_log, installed, renderer, is_running, automation,
                 jobs, alarm_passed, alarms, second, files>>

\* generate_content in thread t: script, rendering and metadata; the renderer
\* writes the file named after the current second
GenerateContent(t) ==
  /\ thr[t].pc = "generate_content"
  /\ \E ok \in BOOLEAN :
       IF ok
       THEN /\ files' = [files EXCEPT ![second] = thr[t].run]
            /\ thr' = [thr EXCEPT ![t].pc = "upload_video", ![t].video_path = second]
            /\ UNCHANGED jobs
       ELSE /\ thr' = Leave(t)
            /\ jobs' = JobsAfterRun(t)
            /\ UNCHANGED files
  /\ UNCHANGED <<pipeline_frozen, runs, uploads_log, installed, renderer, is_running, automation,
                 alarm_passed, alarms, second>>

\* YouTubeUploader.upload_video in thread t up to the point where
\* _save_upload_metadata has read the log: the file at video_path is sent;
\* a failing read of the log is caught and the id is returned all the same
UploadVideo(t) ==
  /\ thr[t].pc = "upload_video"
  /\ \E ok, read_ok \in BOOLEAN :
       IF youtube /\ ok /\ read_ok
       THEN /\ thr' = [thr EXCEPT ![t].pc = "save_upload_metadata", ![t].log = uploads_log]
            /\ UNCHANGED jobs
       ELSE /\ thr' = Leave(t)
            /\ jobs' = JobsAfterRun(t)
  /\ UNCHANGED <<pipeline_frozen, runs, uploads_log, installed, renderer, is_running, automation,
                 alarm_passed, alarms, second, files>>

\* _save_upload_metadata in thread t from the append on: the log that was
\* read, with the new record, is written back; a failing write is caught
SaveUploadMetadata(t) ==
  /\ thr[t].pc = "save_upload_metadata"
  /\ \E write_ok \in BOOLEAN :
       uploads_log' = IF write_ok
                      THEN save_upload_metadata(thr[t].log, thr[t].run, thr[t].video_path,
                                                generate_tags(None), TRUE)
                      ELSE uploads_log
  /\ thr' = Leave(t)
  /\ jobs' = JobsAfterRun(t)
  /\ UNCHANGED <<pipeline_frozen, runs, installed, renderer, is_running, automation,
                 alarm_passed, alarms, second, files>>

\* The wall clock reaches the daily upload time: a job that schedule holds
\* becomes due.
AlarmTime ==
  /\ Started
  /\ alarms < MaxAlarms
  /\ alarms' = alarms + 1
  /\ jobs' = IF jobs = "scheduled" THEN "due" ELSE jobs
  /\ alarm_passed' = (alarm_passed \/ Polling)
  /\ UNCHANGED <<pipeline_frozen, runs, uploads_log, installed, renderer, is_running, automation,
                 thr, second, files>>

\* a second of wall-clock time passes
SecondPasses ==
  /\ second < MaxSecond
  /\ second' = second + 1
  /\ UNCHANGED <<pipeline_frozen, runs, uploads_log, installed, renderer, is_running, automation,
                 thr, jobs, alarm_passed, alarms, files>>

\* the steps a thread takes by itself
ThreadStep(t) ==
  \/ WorkerInit(t)
  \/ WhileCheck(t)
  \/ RunPending(t)
  \/ GenerateContent(t)
  \/ UploadVideo(t)
  \/ SaveUploadMetadata(t)

NextDash ==
  \/ StartAutomation
  \/ StopAutomation
  \/ AlarmTime
  \/ \E t \in Triggers : TestAutomation(t)
  \/ \E t \in Threads : WorkerInit(t)
  \/ \E t \in Threads : WhileCheck(t)
  \/ \E t \in Threads : RunPending(t)
  \/ \E t \in Threads : GenerateContent(t)
  \/ \E t \in Threads : UploadVideo(t)
  \/ \E t \in Threads : SaveUploadMetadata(t)

SpecDash == InitDash /\ [][NextDash]_vars

NextCli ==
  \/ ImportMain
  \/ StartCli
  \/ AlarmTime
  \/ SecondPasses
  \/ \E t \in Threads : MainTest(t)
  \/ \E t \in Threads : WhileCheck(t)
  \/ \E t \in Threads : RunPending(t)
  \/ \E t \in Threads : GenerateContent(t)
  \/ \E t \in Threads : UploadVideo(t)
  \/ \E t \in Threads : SaveUploadMetadata(t)

SpecCli == InitCli /\ [][NextCli]_vars

\* Every thread that can take a step of its own eventually takes it; what
\* users and the clock do is not forced.
FairSpecDash == SpecDash /\ \A t \in DashThreads : WF_vars(ThreadStep(t))

FairSpecCli == SpecCli /\ \A t \in CliThreads : WF_vars(ThreadStep(t))

\* ================================================================== claims

Last(seq) == seq[Len(seq)]

Range(seq) == {seq[i] : i \in DOMAIN seq}

Http(status) == [kind |-> "HttpError", status |-> status]

UploadOk == [kind |-> "response", response |-> [id |-> "abc123"]]

\* upload_video of the uploader has returned (its locals are kept until the
\* next run starts)
UploadReturnedHere == pc \in {"upload_video_ret", "Idle"} /\ "upload_video" \in Range(trace)

\* ------------------------------------- the scheduler and the config endpoint

\* Config.get_upload_schedule
get_upload_schedule(tree) ==
  get_loop(tree, split_dot("automation.daily_upload_time"), 1, "10:00")

\* web_app.manage_config, POST with an upload_time: the setting is set and
\* config.json rewritten (a failing write is caught)
ManageConfig ==
  /\ \E upload_time \in Leaves, save_ok \in BOOLEAN :
       \E keys \in {split_dot("automation.daily_upload_time")} :
         LET r == set_loop(settings, keys, 1, upload_time)
         IN /\ settings' = r.settings
            /\ config_saved' = IF r.raised THEN config_saved ELSE save_ok
            /\ cfg_call' = [op |-> "set", key_path |-> "automation.daily_upload_time",
                            keys |-> keys, value |-> upload_time, raised |-> r.raised]
  /\ UNCHANGED <<pipeline_vars, dash_vars, auth_vars, call, alarm_at>>

NextSched ==
  \/ NextCli
  \/ ManageConfig

SpecSched == InitCli /\ [][NextSched]_vars

\* ------------------------------------------- the degraded renderer alone

\* script records as generate_funny_script returns them, and one that lacks
\* the fields the image is drawn from
LiteInputs ==
  {enhance_script_for_video(format_script(backup_jokes[i])) : i \in {1, 6}}
    \cup {enhance_script_for_video(format_script([type |-> "story_joke", joke |-> "ha ha"])),
          [topic |-> "humor"]}

InitLite ==
  /\ pc = "create_video"
  /\ runs = 1
  /\ result = "pending"
  /\ trace = <<"create_video">>
  /\ joke_apis = joke_apis_init
  /\ youtube = FALSE
  /\ uploads_log = <<>>
  /\ api_idx = 0
  /\ fetched = <<>>
  /\ joke_data = None
  /\ script_data \in LiteInputs
  /\ script_file = None
  /\ asset = None
  /\ content_data = None
  /\ error = NoneStr
  /\ retry = 0
  /\ chunk_log = <<>>
  /\ sleeps = <<>>
  /\ video_id = NoneStr
  /\ upload_result = NoneStr
  /\ installed = [moviepy |-> FALSE, video_creator |-> FALSE]
  /\ renderer = "VideoCreatorLite"
  /\ ProcInit({})
  /\ ConfigIdle
  /\ AuthIdle
  /\ CallIdle
  /\ NoJob

\* VideoCreatorLite().create_video(script_data)
CreateVideoLite ==
  /\ renderer = "VideoCreatorLite"
  /\ \E pil_available, draw_ok, save_ok, write_ok \in BOOLEAN, font \in FontOutcomes :
       call' = [op |-> "create_video", pil_available |-> pil_available, font |-> font,
                draw_ok |-> draw_ok, save_ok |-> save_ok, write_ok |-> write_ok,
                second |-> second,
                returned |-> create_video_lite(script_data, pil_available, font, draw_ok,
                                               save_ok, write_ok, second)]
  /\ UNCHANGED <<pipeline_vars, dash_vars, config_vars, auth_vars, alarm_at>>

NextLite ==
  \/ CreateVideoLite
  \/ SecondPasses

SpecLite == InitLite /\ [][NextLite]_vars

\* -------------------------------------------------- create_text_clip alone

\* a text of n characters
RECURSIVE TextOfLen(_)
TextOfLen(n) == IF n = 0 THEN "" ELSE TextOfLen(n - 1) \o "x"

\* the sizes create_video_from_script asks for (none, and the default plus
\* 10 for the punchline), and two sizes near the floors
FontSizes == {<<>>, <<DefaultFontSize + 10>>, <<45>>, <<35>>}

InitClip ==
  /\ pc = "create_video"
  /\ runs = 1
  /\ result = "pending"
  /\ trace = <<"create_video">>
  /\ joke_apis = joke_apis_init
  /\ youtube = FALSE
  /\ uploads_log = <<>>
  /\ FreshLocals
  /\ PipelineExt

\* self.create_text_clip(text, start, end, fontsize=fontsize)
CreateTextClip ==
  /\ \E n \in 0..MaxTextLen, fontsize \in FontSizes :
       \E text \in {TextOfLen(n)} :
         call' = [op |-> "create_text_clip", text |-> text, fontsize |-> fontsize,
                  used |-> create_text_clip(text, fontsize)]
  /\ UNCHANGED <<pipeline_vars, dash_vars, config_vars, auth_vars, alarm_at>>

NextClip == CreateTextClip

SpecClip == InitClip /\ [][NextClip]_vars

\* ------------------------------------------------------------------- C1

\* C1 as stated: 503, 503, then a response with an id: upload() returns the
\* id after exactly two sleeps of 1 and 2 seconds.
C1_Original ==
  (UploadReturnedHere /\ chunk_log = <<Http(503), Http(503), UploadOk>>)
    => (upload_result = "abc123" /\ sleeps = <<1, 2>>)

\* C1 (amended): when next_chunk raises HTTP 503 on the first two calls and
\* returns a response carrying an id on the third, upload() returns that id
\* after exactly 2 backoff sleeps, of 2 and then 4 seconds (6 in total).
C1_RetrySuccess ==
  (UploadReturnedHere /\ chunk_log = <<Http(503), Http(503), UploadOk>>)
    => (upload_result = "abc123" /\ sleeps = <<2, 4>> /\ retry = 2)

C1_Witness ==
  /\ pc = "upload_video_ret"
  /\ chunk_log = <<Http(503), Http(503), UploadOk>>
  /\ upload_result = "abc123"

\* ------------------------------------------------------------------- C2

AllTransient(log) ==
  /\ log /= <<>>
  /\ \A i \in DOMAIN log : log[i].kind = "HttpError" /\ log[i].status \in {500, 502, 503, 504}

\* the current run has appended no record to the upload log
NoRecordOfRun == \A i \in DOMAIN uploads_log : uploads_log[i].video_path /= runs

\* C2: when every next_chunk call raises a transient HTTP error, the retry
\* loop terminates after the initial attempt and exactly 3 retried attempts
\* (3 sleeps), upload() returns null and no UploadRecord is appended.
C2_RetryExhaustion ==
  AllTransient(chunk_log) =>
    /\ Len(chunk_log) <= 4
    /\ (pc = "next_chunk") = (Len(chunk_log) <= 3)
    /\ Len(sleeps) = (IF Len(chunk_log) <= 3 THEN Len(chunk_log) ELSE 3)
    /\ pc /= "next_chunk" => video_id = NoneStr
    /\ UploadReturnedHere => (upload_result = NoneStr /\ NoRecordOfRun)
    /\ pc = "Idle" => result = "False"

C2_Witness ==
  /\ pc = "Idle"
  /\ chunk_log = <<Http(503), Http(503), Http(503), Http(503)>>
  /\ upload_result = NoneStr

\* ------------------------------------------------------------------- C3

IsAbort(outcome) ==
  \/ outcome.kind = "Exception"
  \/ outcome.kind = "HttpError" /\ outcome.status \notin {500, 502, 503, 504}

\* C3: an HTTP error with a status outside {500, 502, 503, 504}, or any other
\* exception, ends the upload at once: that iteration sleeps no more, no
\* further next_chunk call or sleep follows in the run, and upload() returns
\* null, however many transient errors came before.
C3_Step ==
  /\ (chunk_log' /= chunk_log /\ chunk_log' /= <<>> /\ IsAbort(Last(chunk_log')))
       => (pc' = "resumable_upload_ret" /\ sleeps' = sleeps /\ video_id' = NoneStr)
  /\ (chunk_log /= <<>> /\ IsAbort(Last(chunk_log)) /\ runs' = runs)
       => (chunk_log' = chunk_log /\ sleeps' = sleeps /\ pc' /= "next_chunk"
           /\ (pc' \in {"upload_video_ret", "Idle"}
                 => (upload_result' = NoneStr /\ uploads_log' = uploads_log)))

C3_NonTransientAbort == [][C3_Step]_vars

C3_Witness ==
  /\ pc = "upload_video_ret"
  /\ chunk_log = <<Http(503), Http(500), Http(404)>>
  /\ sleeps = <<2, 4>>
  /\ upload_result = NoneStr

\* ------------------------------------------------------------------- C4

FetchReturned == pc = "generate_funny_script_ret"

AllEndpointsFailed ==
  /\ Len(fetched) = 3
  /\ \A i \in DOMAIN fetched : fetched[i].outcome.kind /= "json"

\* the texts of the entries of the local list
BackupTexts ==
  {IF "joke" \in DOMAIN backup_jokes[i]
   THEN backup_jokes[i]["joke"]
   ELSE backup_jokes[i]["setup"] \o " " \o backup_jokes[i]["punchline"] : i \in DOMAIN backup_jokes}

NonEmptyField(data, key) == key \in DOMAIN data /\ data[key] /= ""

\* the response carries, non-empty, the joke fields its endpoint documents
WellFormed(api_url, data) ==
  CASE api_url = "official-joke-api" ->
         NonEmptyField(data, "setup") /\ NonEmptyField(data, "punchline")
    [] api_url = "jokeapi.dev" ->
         IF "type" \in DOMAIN data /\ data["type"] = "single"
         THEN NonEmptyField(data, "joke")
         ELSE NonEmptyField(data, "setup") /\ NonEmptyField(data, "delivery")
    [] api_url = "icanhazdadjoke" -> NonEmptyField(data, "joke")

Malformed(req) == req.outcome.kind = "json" /\ ~WellFormed(req.api_url, req.outcome.data)

\* C6: a malformed or empty response is that endpoint's failure: after it
\* the next candidate is tried, or the local list is used when none remains,
\* and the joke in hand is never the one built from that response.
C6_MalformedIsFailure ==
  (pc \in {"fetch_joke_from_api", "format_script"} /\ fetched /= <<>> /\ Malformed(Last(fetched)))
    => /\ joke_data = None
       /\ (pc = "format_script") = (Len(fetched) = 3)

\* ------------------------------------------------------------------- C7

\* the three response shapes, each from the endpoint that answers with it
Shaped(req) ==
  /\ req.outcome.kind = "json"
  /\ CASE req.api_url = "official-joke-api" ->
            NonEmptyField(req.outcome.data, "setup") /\ NonEmptyField(req.outcome.data, "punchline")
       [] req.api_url = "jokeapi.dev" ->
            NonEmptyField(req.outcome.data, "type") /\ req.outcome.data["type"] = "single"
              /\ NonEmptyField(req.outcome.data, "joke")
       [] req.api_url = "icanhazdadjoke" -> NonEmptyField(req.outcome.data, "joke")

\* C7: for each of the three response shapes, normalization followed by
\* format_script gives a record whose script text and kind are non-empty.
C7_ShapesNormalized ==
  (pc = "format_script" /\ fetched /= <<>> /\ Shaped(Last(fetched))) =>
    /\ Truthy(joke_data)
    /\ Len(format_script(joke_data)["script"]) > 0
    /\ Len(format_script(joke_data)["type"]) > 0
    /\ format_script(joke_data)["type"] =
         (IF Last(fetched).api_url = "official-joke-api" THEN "dad_joke" ELSE "one_liner")

C7_Witness ==
  /\ pc = "format_script"
  /\ Len(fetched) = 3
  /\ Last(fetched).api_url = "icanhazdadjoke"
  /\ Shaped(Last(fetched))
  /\ format_script(joke_data)["script"] = "One."

\* ------------------------------------------------------------------- C8

Requested == Get(script_data, "duration", DefaultDuration)

\* C8: whatever duration the script record requests, a rendered asset lasts
\* at most 60 seconds, and a requested duration of at most 60 is kept.
C8_DurationClamp ==
  (pc = "create_video_ret" /\ asset /= None) =>
    /\ asset.duration <= 60
    /\ Requested <= 60 => asset.duration = Requested
    /\ Requested > 60 => asset.duration = 60

C8_Witness ==
  /\ pc = "create_video_ret"
  /\ asset /= None
  /\ Requested = 500
  /\ asset.duration = 60

\* ------------------------------------------------------------------- C9

\* the orchestrator's state, read off the position of the run
Stage ==
  CASE pc = "Idle" -> "Idle"
    [] pc \in {"get_joke_from_apis", "fetch_joke_from_api", "format_script",
               "generate_funny_script_ret"} -> "GeneratingScript"
    [] pc \in {"create_video", "create_video_ret"} -> "Rendering"
    [] pc \in {"upload_video", "next_chunk", "resumable_upload_ret", "upload_video_ret"} -> "Uploading"

StageCalls == <<"generate_funny_script", "create_video", "upload_video">>

AllStagesReturned == Truthy(script_data) /\ Truthy(asset) /\ upload_result /= NoneStr

C9_StageStep ==
  Stage' /= Stage =>
    <<Stage, Stage'>> \in {<<"Idle", "GeneratingScript">>, <<"GeneratingScript", "Rendering">>,
                           <<"Rendering", "Uploading">>, <<"GeneratingScript", "Idle">>,
                           <<"Rendering", "Idle">>, <<"Uploading", "Idle">>}

C9_State ==
  /\ Len(trace) <= 3
  /\ trace = SubSeq(StageCalls, 1, Len(trace))
  /\ Stage = (IF pc = "Idle" THEN "Idle"
              ELSE <<"GeneratingScript", "Rendering", "Uploading">>[Len(trace)])
  /\ result \in {"pending", "True", "False"}
  /\ (result = "pending") = (pc /= "Idle" \/ runs = 0)
  /\ (pc = "Idle" /\ runs > 0) => ((result = "True") = AllStagesReturned)

\* C9: in every run the stages occur in the order GeneratingScript,
\* Rendering, Uploading, each at most once; the run always returns to Idle;
\* and daily_automation returns true exactly when all three stages returned
\* a non-null result.
C9_StageOrder ==
  /\ []C9_State
  /\ [][C9_StageStep]_vars
  /\ [](pc /= "Idle" => <>(pc = "Idle"))

C9_Witness ==
  /\ pc = "Idle"
  /\ trace = StageCalls
  /\ result = "True"
  /\ upload_result = "abc123"

\* ------------------------------------------------------------------ C10

\* C10: without a script neither the renderer nor the uploader is invoked,
\* and without a rendered video the uploader is not invoked (no next_chunk
\* call, no record in the log); such a run returns false.
C10_NoPartialUpload ==
  /\ "create_video" \in Range(trace) => Truthy(script_data)
  /\ "upload_video" \in Range(trace) => (Truthy(script_data) /\ Truthy(asset))
  /\ "upload_video" \notin Range(trace) =>
       (chunk_log = <<>> /\ upload_result = NoneStr /\ NoRecordOfRun)
  /\ (pc = "Idle" /\ runs > 0 /\ (~Truthy(script_data) \/ ~Truthy(asset))) => result = "False"

C10_Witness ==
  /\ pc = "Idle"
  /\ runs > 0
  /\ Truthy(script_data)
  /\ asset = None
  /\ trace = <<"generate_funny_script", "create_video">>
  /\ result = "False"

\* ------------------------------------------------------------------ C11

\* the threads that are inside daily_automation
Running == {t \in Threads : InRun(t)}

\* C11: at most one pipeline run is active at a time: no two executions of
\* daily_automation overlap, whatever the interleaving of manual and
\* alarm-triggered runs.
C11_OneRunAtATime == Cardinality(Running) <= 1

\* ------------------------------------------------------------------ C12

\* C12: whenever the daily alarm time has passed while a polling loop was
\* running (start_scheduler's loop, or the dashboard worker with the flag
\* set), that loop starts a pipeline run at a following tick, unless the
\* automation is stopped first.
C12_AlarmTrigger == [](alarm_passed => <>(~alarm_passed \/ ~Polling))

\* ------------------------------------------------------------------ C13

\* a step that clears the running flag
FlagCleared == is_running /\ ~is_running'

\* Clearing the flag touches no thread (but the worker whose failed start
\* cleared it), no run, no file and no job.
C13_ClearStep ==
  FlagCleared =>
    /\ \A t \in Threads : thr[t].pc /= "init" => thr'[t] = thr[t]
    /\ UNCHANGED <<runs, uploads_log, files, jobs, automation>>

\* A worker that tests its loop condition while the flag is cleared ends.
C13_TickStep ==
  \A w \in Workers \cap Threads :
    (thr[w].pc = "while" /\ thr'[w].pc /= "while" /\ ~is_running) => thr'[w].pc = "off"

\* C13: stop() only clears the running flag; a pipeline run in progress is
\* not interrupted and completes its stages (no thread stays inside
\* daily_automation for ever); and a polling loop exits at its next tick
\* after the flag was cleared, unless start() set the flag again (no worker
\* stays in its loop for ever with the flag cleared).
C13_CooperativeStop ==
  /\ [][C13_ClearStep /\ C13_TickStep]_vars
  /\ \A t \in DashThreads : []<>(~InRun(t))
  /\ \A w \in Workers : []<>(~(thr[w].pc \in {"while", "run_pending"} /\ ~is_running))

\* the flag was cleared and the polling loop has exited, while a run that a
\* test request started goes on and is about to write the log
C13_Witness ==
  /\ automation
  /\ ~is_running
  /\ \A w \in Workers : thr[w].pc = "off"
  /\ \E t \in Triggers : thr[t].pc = "save_upload_metadata"

\* ------------------------------------------------------------------ C14

IsPrefix(s, t) == Len(s) <= Len(t) /\ SubSeq(t, 1, Len(s)) = s

\* thread t returns from _save_upload_metadata, and so upload_video returns
\* the id, in this step
ReturnsId(t) == thr[t].pc = "save_upload_metadata" /\ thr'[t].pc /= "save_upload_metadata"

\* thread t returns from upload_video in this step without having come to
\* the append
ReturnsEarly(t) ==
  thr[t].pc = "upload_video" /\ thr'[t].pc \notin {"upload_video", "save_upload_metadata"}

C14_Step ==
  /\ IsPrefix(uploads_log, uploads_log')
  /\ \A t \in Threads :
       /\ ReturnsId(t) => /\ Len(uploads_log') = Len(uploads_log) + 1
                          /\ Last(uploads_log').video_id = thr[t].run
       /\ ReturnsEarly(t) => uploads_log' = uploads_log

\* C14: the upload log is append-only: every upload that returns an id has
\* appended exactly one record at the end of the log, the records that were
\* in the log are still there, unchanged and in order, and an upload that
\* returns nothing leaves the log unchanged.
C14_AppendOnly == [][C14_Step]_vars

\* ------------------------------------------------------------------ C15

\* the runs entered so far
RunIds == 1..runs

\* C15: a pipeline run renders at most one asset and has at most one record
\* appended for it, and the asset a run is about to upload is the one that
\* same run rendered, never the content of another run.
C15_PerRunCardinality ==
  /\ \A r \in RunIds : Cardinality({p \in Paths : files[p] = r}) <= 1
  /\ \A i, j \in DOMAIN uploads_log :
       uploads_log[i].video_id = uploads_log[j].video_id => i = j
  /\ \A t \in Threads :
       thr[t].pc = "upload_video" => files[thr[t].video_path] = thr[t].run

\* ------------------------------------------------------------------ C16

\* the positions of the pipeline thread: inside a stage, or back in the
\* caller with what the stage returned
Positions ==
  {"Idle", "get_joke_from_apis", "fetch_joke_from_api", "format_script",
   "generate_funny_script_ret", "create_video", "create_video_ret", "upload_video",
   "next_chunk", "resumable_upload_ret", "upload_video_ret"}

\* a value a stage hands to its caller: None, or a record with the stage's key
Returned(v, key) == v = None \/ key \in DOMAIN v

\* an exception was raised inside the stage that has just returned: the
\* write of the script file failed, or next_chunk raised last
RaisedInStage ==
  \/ pc = "generate_funny_script_ret" /\ script_file = None
  \/ pc = "resumable_upload_ret" /\ chunk_log /= <<>>
       /\ Last(chunk_log).kind \in {"Exception", "HttpError"}

\* what the stage that has just returned handed back
StageValueIsNull ==
  \/ pc = "generate_funny_script_ret" /\ script_data = None
  \/ pc = "resumable_upload_ret" /\ video_id = NoneStr

\* C16: no exception crosses a stage boundary: the thread is always at a
\* position of the pipeline, every stage hands back None or its record (an
\* exception inside the stage gives None), and a finished run has returned
\* a boolean.
C16_NoExceptionCrosses ==
  /\ pc \in Positions
  /\ Returned(script_data, "script")
  /\ Returned(asset, "file_path")
  /\ Returned(content_data, "video_path")
  /\ video_id \in {NoneStr, "abc123"}
  /\ upload_result \in {NoneStr, "abc123"}
  /\ RaisedInStage => StageValueIsNull
  /\ result \in {"pending", "True", "False"}
  /\ (pc = "Idle" /\ runs > 0) => result \in {"True", "False"}

\* a run in which next_chunk raised has ended, and daily_automation returned
\* False
C16_Witness ==
  /\ pc = "Idle"
  /\ runs > 0
  /\ result = "False"
  /\ chunk_log /= <<>>
  /\ Last(chunk_log).kind = "Exception"

\* ------------------------------------------------------------------ C17

\* C17: once main.py's import has run, the full renderer is selected if
\* moviepy is available (and video_creator.py is there to be imported), the
\* degraded renderer is selected if moviepy is unavailable, and in both
\* cases the orchestrator starts; no run begins before the selection.
C17_RendererSelection ==
  /\ renderer /= "unbound" =>
       /\ (installed.moviepy /\ installed.video_creator) => renderer = "VideoCreator"
       /\ ~installed.moviepy => renderer = "VideoCreatorLite"
  /\ runs > 0 => Started

\* ------------------------------------------------------------------ C18

\* C18: whatever the script record (no topic, or a topic of any number of
\* words), the tag list generated for the upload has at most 15 entries, and
\* so have the tags of every record appended to the upload log.
C18_TagBound ==
  /\ script_data /= None => Len(generate_tags(script_data)) <= 15
  /\ content_data /= None => Len(content_data.tags) <= 15
  /\ \A i \in DOMAIN uploads_log : Len(uploads_log[i].tags) <= 15

\* a record was appended for a script whose topic has several words
C18_Witness ==
  /\ uploads_log /= <<>>
  /\ "topic" \in DOMAIN script_data
  /\ Len(split(script_data["topic"])) >= 3
  /\ Len(uploads_log[1].tags) = 15

\* ------------------------------------------------------------------ C19

\* every entry of the tree lies in a dict
WellFormedTree ==
  \A p \in DOMAIN settings :
    settings[p] /= Missing => IsDict(settings, Prefix(p, Len(p) - 1))

\* every segment of the path is there, each inside a dict
Resolves(tree, keys) ==
  \A i \in 1..Len(keys) :
    IsDict(tree, Prefix(keys, i - 1)) /\ NodeAt(tree, Prefix(keys, i)) /= Missing

\* neither a prefix nor an extension of the other (nor the same path)
Unrelated(p, q) == p /= q /\ ~Extends(p, q) /\ ~Extends(q, p)

\* the step is a call of set that did not raise
C19_SetStep ==
  (cfg_call'.op = "set" /\ ~cfg_call'.raised) =>
    LET keys == cfg_call'.keys
    IN /\ get_loop(settings', keys, 1, "<default>")
            = [value |-> cfg_call'.value, items |-> {}]
       /\ \A other \in TreePaths :
            Unrelated(other, keys) =>
              get_loop(settings', other, 1, "<default>")
                = get_loop(settings, other, 1, "<default>")

\* the last call was a get: it returned (it did not raise), and what it
\* returned is the default exactly when the path does not resolve
C19_GetState ==
  cfg_call.op = "get" =>
    LET keys == cfg_call.keys
    IN cfg_call.returned = IF Resolves(settings, keys)
                           THEN ValueAt(settings, keys)
                           ELSE DefaultValue(cfg_call.default)

\* C19: after a set(path, v) that succeeds, get(path) returns v and get of
\* every path that is neither a prefix nor an extension of path returns what
\* it returned before; get never raises, and returns the supplied default
\* when a segment of the path is missing or lies in a value that is not a
\* mapping.
C19_RoundTrip ==
  [][/\ WellFormedTree /\ C19_GetState
     /\ WellFormedTree' /\ C19_GetState'
     /\ C19_SetStep]_vars

\* set has put a value beside an entry that was there, below "automation"
C19_Witness ==
  /\ cfg_call.op = "set"
  /\ ~cfg_call.raised
  /\ cfg_call.key_path = "automation.automation"
  /\ settings[<<"automation", "automation">>] = "18:30"
  /\ settings[<<"automation", "daily_upload_time">>] = "10:00"

\* ------------------------------------------------------------------ C20

\* the credential the last call of authenticate found stored
StoredValid ==
  auth.stored \in Credentials /\ auth.stored.token /\ ~auth.stored.expired

StoredRefreshable ==
  auth.stored \in Credentials /\ auth.stored.expired /\ auth.stored.refresh_token

\* which of the refresh and the consent flow the last call entered
Entered == {p \in {"refresh", "consent"} : \E i \in 1..Len(auth.steps) : auth.steps[i] = p}

\* C20: authenticate takes one path, which the stored credential decides.
\* It never enters both the refresh and the consent flow; it does not enter
\* the consent flow when the stored credential is valid or is expired with a
\* refresh token; when no step fails, no stored credential leads through
\* consent, an expired one with a refresh token through refresh, and a valid
\* one straight to the build, each ending with the service set; and the
\* service is set only when the path taken ended with the build and no step
\* failed.
C20_AuthPaths ==
  auth.op = "authenticate" =>
    /\ Cardinality(Entered) <= 1
    /\ (StoredValid \/ StoredRefreshable) => "consent" \notin Entered
    /\ auth.error = "none" =>
         /\ youtube
         /\ auth.stored = NoFile => auth.steps = <<"consent", "save", "build">>
         /\ StoredRefreshable => auth.steps = <<"load", "refresh", "save", "build">>
         /\ StoredValid => auth.steps = <<"load", "build">>
    /\ youtube =>
         /\ auth.error = "none"
         /\ auth.returned
         /\ auth.steps[Len(auth.steps)] = "build"

\* an expired credential with a refresh token was refreshed, saved, and the
\* service was built
C20_Witness ==
  /\ auth.op = "authenticate"
  /\ StoredRefreshable
  /\ auth.steps = <<"load", "refresh", "save", "build">>
  /\ youtube
  /\ credentials_file \in Credentials
  /\ valid(credentials_file)

\* ------------------------------------------------------------------ C21

\* the call that ends the step entered the refresh or the consent flow, and
\* the flow returned
FlowCompleted ==
  /\ \E i \in 1..Len(auth'.steps) : auth'.steps[i] \in {"refresh", "consent"}
  /\ auth'.error \notin {"refresh", "consent"}

\* the stored credential the call found was valid
FoundValid == credentials_file \in Credentials /\ valid(credentials_file)

\* C21 as stated: the stored credential changes exactly in a call in which a
\* refresh or a consent completed, and it is left as it was when it was
\* valid or when authenticate failed.
C21_Original ==
  [][NewUploader =>
       /\ (credentials_file' /= credentials_file) <=> FlowCompleted
       /\ (FoundValid \/ ~auth'.returned) => credentials_file' = credentials_file]_vars

\* C21 (amended): the stored credential changes only in a call in which a
\* refresh or a consent completed; when the flow completed and the file could
\* be written it holds the new, valid credential, whether or not the build
\* that follows succeeds; it is left as it was when it was valid and when
\* authenticate failed before the save (unreadable file, no client secrets,
\* refresh error, consent error).
C21_Persistence ==
  [][NewUploader =>
       /\ (credentials_file' /= credentials_file) => FlowCompleted
       /\ (FlowCompleted /\ auth'.error /= "save") =>
            /\ credentials_file' \in Credentials
            /\ valid(credentials_file')
            /\ credentials_file' /= credentials_file
       /\ (FoundValid \/ auth'.error \in {"load", "client_secrets", "refresh", "consent"}) =>
            credentials_file' = credentials_file]_vars

\* consent completed with nothing stored, the credential was saved, and the
\* build then failed
C21_Witness ==
  /\ auth.op = "authenticate"
  /\ auth.stored = NoFile
  /\ auth.steps = <<"consent", "save", "build">>
  /\ auth.error = "build"
  /\ ~youtube
  /\ credentials_file \in Credentials

\* ------------------------------------------------------------------ C22

\* the number of words the text was made with
WordsOf(text) == CHOOSE n \in 0..MaxJokeWords : JokeText(n) = text

\* the words of the text that the fallback formatting takes for the script
FallbackWords ==
  IF "joke" \in DOMAIN joke_data THEN WordsOf(joke_data["joke"])
  ELSE WordsOf(Get(joke_data, "setup", "")) + WordsOf(Get(joke_data, "punchline", ""))

\* C22: format_script gives duration 6 to a dad_joke that has a setup,
\* duration 4 to a one_liner that has a joke line, and to every other record
\* half the number of words of its text, rounded down.
C22_DurationAssignment ==
  pc = "enhance_script_for_video" =>
    script_data["duration"] =
      IF joke_data["type"] = "dad_joke" /\ "setup" \in DOMAIN joke_data THEN 6
      ELSE IF joke_data["type"] = "one_liner" /\ "joke" \in DOMAIN joke_data THEN 4
      ELSE FallbackWords \div 2

\* a one_liner without a joke line was formatted from its three-word setup
\* and punchline
C22_Witness ==
  /\ pc = "enhance_script_for_video"
  /\ joke_data["type"] = "one_liner"
  /\ "joke" \notin DOMAIN joke_data
  /\ "setup" \in DOMAIN joke_data
  /\ FallbackWords = 3
  /\ script_data["duration"] = 1
  /\ script_data["topic"] = "humor"

\* ------------------------------------------------------------------ C23

\* the i-th request of the current fetch gave no joke record
RequestFailed(i) == fetch_joke_from_api(fetched[i].api_url, fetched[i].outcome) = None

\* C23: within one fetch the endpoints are requested in the shuffled order,
\* each at most once and at most 3 in all; every request but the last one
\* failed, and while the iteration goes on every request so far failed, so it
\* stops at the first endpoint that gives a joke and none is asked twice; the
\* joke handed to the formatting is that of the last request, and it is
\* missing, so that the local list is consulted, only after all 3 failed.
C23_EndpointIteration ==
  /\ Len(fetched) <= 3
  /\ \A i \in DOMAIN fetched : fetched[i].api_url = joke_apis[i]
  /\ \A i, j \in DOMAIN fetched : fetched[i].api_url = fetched[j].api_url => i = j
  /\ \A i \in DOMAIN fetched : i < Len(fetched) => RequestFailed(i)
  /\ pc = "fetch_joke_from_api" =>
       /\ api_idx = Len(fetched) + 1
       /\ \A i \in DOMAIN fetched : RequestFailed(i)
  /\ pc = "format_script" =>
       /\ fetched /= <<>>
       /\ IF joke_data = None
          THEN Len(fetched) = 3 /\ RequestFailed(3)
          ELSE /\ ~RequestFailed(Len(fetched))
               /\ joke_data = fetch_joke_from_api(fetched[Len(fetched)].api_url,
                                                  fetched[Len(fetched)].outcome)
  /\ (pc = "generate_funny_script_ret" /\ joke_data \in Range(backup_jokes)) =>
       (Len(fetched) = 3 /\ \A i \in DOMAIN fetched : RequestFailed(i))

\* the first endpoint of the shuffled list failed, the second gave a joke, and
\* the third was not requested
C23_Witness ==
  /\ pc = "format_script"
  /\ joke_apis = <<"icanhazdadjoke", "official-joke-api", "jokeapi.dev">>
  /\ Len(fetched) = 2
  /\ fetched[1].outcome.kind = "http_error"
  /\ fetched[2].api_url = "official-joke-api"
  /\ joke_data = [setup |-> "Why?", punchline |-> "Because!", type |-> "dad_joke"]

\* ------------------------------------------------------------------ C24

\* the image was made: PIL is there, a font loaded, and building, drawing
\* and saving the image raised nothing
ImageDrawn ==
  /\ call.pil_available
  /\ call.font /= "none"
  /\ text_lines_ok(script_data)
  /\ call.draw_ok
  /\ call.save_ok

\* C24: the degraded renderer returns the path of the image when the image
\* was made; when PIL is missing or making the image raised, it returns the
\* path of the text file; it returns null exactly when the image was not made
\* and the text file could not be written; and it never raises.
C24_FallbackChain ==
  call.op = "create_video" =>
    /\ "exception" \notin DOMAIN call.returned
    /\ ImageDrawn => call.returned = LitePath("jpg", call.second)
    /\ (~ImageDrawn /\ call.write_ok) => call.returned = LitePath("txt", call.second)
    /\ (call.returned = None) = (~ImageDrawn /\ ~call.write_ok)

\* PIL is there and a font loaded, saving the image failed, and the text
\* file was written instead
C24_Witness ==
  /\ call.op = "create_video"
  /\ call.pil_available
  /\ call.font = "default"
  /\ call.draw_ok
  /\ ~call.save_ok
  /\ call.write_ok
  /\ Get(script_data, "type", "unknown") = "dad_joke"
  /\ call.returned = LitePath("txt", 1)

\* ------------------------------------------------------------------ C25

\* the size the last call of create_text_clip was asked for
RequestedSize == IF call.fontsize = <<>> THEN 80 ELSE call.fontsize[1]

\* C25: a text of more than 50 and at most 100 characters is rendered with
\* the requested size less 10 (at least 40), and a text of more than 100
\* characters with the requested size less 20 (at least 30): at the
\* requested size of 80 that is 70 for the former and 60 for the latter.
C25_TwoThresholds ==
  call.op = "create_text_clip" =>
    /\ (Len(call.text) > 50 /\ Len(call.text) <= 100) =>
         call.used = (IF RequestedSize - 10 >= 40 THEN RequestedSize - 10 ELSE 40)
    /\ Len(call.text) > 100 =>
         /\ call.used = (IF RequestedSize - 20 >= 30 THEN RequestedSize - 20 ELSE 30)
         /\ RequestedSize = 80 => call.used < 70

\* ------------------------------------------------------------------ C26

\* the worker threads that have been started and have not ended
AliveWorkers == {w \in Workers \cap Threads : thr[w].pc /= "off"}

\* C26: at most one background polling worker thread is alive at any time.
C26_WorkerUniqueness == Cardinality(AliveWorkers) <= 1

\* ------------------------------------------------------------------ C27

\* what next_chunk did in the iteration that the step makes
IterationOutcome == chunk_log'[Len(chunk_log')]

\* C27: the retry counter advances, and a backoff sleep occurs, only in an
\* iteration in which next_chunk raised a transient HTTP error; an iteration
\* in which it returned progress leaves the counter and the sleeps as they
\* were.
C27_Step ==
  (pc = "next_chunk" /\ Len(chunk_log') = Len(chunk_log) + 1) =>
    ((retry' /= retry \/ sleeps' /= sleeps) =>
       (IterationOutcome.kind = "HttpError" /\ IsRetriable(IterationOutcome.status)))

C27_RetryAccounting == [][C27_Step]_vars

\* ------------------------------------------------------------------ C28

\* every record of log s is in log t
KeepsRecords(s, t) == \A i \in DOMAIN s : \E j \in DOMAIN t : t[j] = s[i]

\* thread t writes the log back in this step, with its record appended
WritesRecord(t) ==
  /\ thr[t].pc = "save_upload_metadata"
  /\ thr'[t].pc /= "save_upload_metadata"
  /\ \E j \in DOMAIN uploads_log' : uploads_log'[j].video_id = thr[t].run

\* C28: the read-modify-write of the upload log never drops a record: when a
\* run, overlapping with another or not, has written its record, the log
\* holds that record in addition to all the records it held before.
C28_NoLostRecord ==
  [][\A t \in Threads : WritesRecord(t) => KeepsRecords(uploads_log, uploads_log')]_vars

\* ------------------------------------------------------------------ C29

\* the step registers the daily job
RegistersJob == alarm_at = "none" /\ alarm_at' /= "none"

\* C29: the time at which the daily job is registered is the value that the
\* setting automation.daily_upload_time has, in the settings and in
\* config.json, when the scheduler is started.
C29_ConfiguredTime ==
  [][(RegistersJob /\ config_saved) =>
       alarm_at' = get_upload_schedule(settings).value]_vars

\* ------------------------------------------------------------------ C30

\* the words of the topic of the script record, lower-cased
TopicWords == split(lower(script_data["topic"]))

\* the number of base tags that fit beside the words of the topic
BaseTagsThatFit ==
  IF Len(TopicWords) >= 15 THEN 0
  ELSE IF 15 - Len(TopicWords) > Len(base_tags) THEN Len(base_tags)
  ELSE 15 - Len(TopicWords)

\* C30: when the script record has a topic, every word of the topic,
\* lower-cased, is among the tags generated for the content, and the list
\* begins with the base tags, as many as fit beside them, in their order.
C30_TopicTags ==
  (content_data /= None /\ "topic" \in DOMAIN script_data) =>
    /\ \A i \in DOMAIN TopicWords :
         \E j \in DOMAIN content_data.tags : content_data.tags[j] = TopicWords[i]
    /\ IsPrefix(SubSeq(base_tags, 1, BaseTagsThatFit), content_data.tags)

====
